---- MODULE Spec2Model ----
(***************************************************************************)
(* Verification model of the voice-agent servers of dmop77/summitdemo.     *)
(*                                                                         *)
(* Part 1 (SpecRelay): RealtimeWebSocketServer of agent/realtime_server.py *)
(*   - the client -> upstream proxy coroutine with its audio batching,     *)
(*     pacing and 429 retry, interleaved at every await with the           *)
(*     upstream -> client coroutine that maintains pending_transcriptions. *)
(*   Time is counted in whole seconds.                                     *)
(* Part 2 (SpecSession): VoiceServer._websocket_handler of agent/main.py   *)
(*   with _process_utterance and the background greeting task.             *)
(* Part 3 (SpecFlux): FluxVoiceSession of agent/voice_server.py - the      *)
(*   message loop of handle_client with the STT / LLM / tool-call chain,   *)
(*   and the TTS task that drains tts_queue.                               *)
(* Part 4 (SpecDb): SupabaseClient of agent/db_client.py - the users and   *)
(*   conversation_messages tables behind get_or_create_user, save_message  *)
(*   and get_conversation_history.                                         *)
(* Part 5 (SpecServer): the connections of one VoiceServer and the agent   *)
(*   object they share.                                                    *)
(* Part 6 (SpecCalls): handle_function_call of the relay.                  *)
(* Part 7 (SpecClients): handle_client of several clients of one relay and *)
(*   the dictionaries it keys by client_id.                                *)
(* Part 8 (SpecAuth): the token endpoints of agent/auth_server.py and its  *)
(*   clean-up thread.                                                      *)
(* SpecBurst and SpecScenario run the relay and the voice session against  *)
(*   a client that only sends audio: a burst of audio-append messages, and *)
(*   an utterance of 250 ms chunks on a connection without greeting.       *)
(***************************************************************************)
EXTENDS Naturals, Integers, Sequences, FiniteSets, TLC

\* ---------------------------------------------------------------- bounds
MaxTime == 14       \* the clock stops advancing here
MaxMsgs == 6        \* audio-append messages the client sends
MaxCtl == 1         \* non-audio client messages
MaxPending == 1     \* cap of the pending-transcription counter
MaxFaults == 4      \* failed upstream send attempts over a run
MaxBurst == 7       \* audio-append messages of the burst scenario
StartTime == 1      \* time.time() when the connection is opened
SessMaxTime == 19   \* the clock of a voice session stops advancing here
MaxChunks == 4      \* audio-append messages of a voice session
MaxInterrupts == 1  \* speech_started messages of a voice session
MaxInbox == 2       \* messages waiting unread on the client connection
MaxScenarioChunks == 6  \* audio chunks of the utterance scenario
FluxMaxTime == 7    \* the clock of a Flux session stops advancing here
MaxFluxChunks == 3  \* audio messages of a Flux session
MaxLlm == 3         \* chat-completion requests of a Flux session
MaxToolCalls == 2   \* tool calls in one chat-completion answer
MaxUserCalls == 3   \* get_or_create_user calls
MaxMessages == 3    \* rows of conversation_messages
NumSessions == 2    \* connections of one VoiceServer
MaxTurns == 1       \* utterances processed per connection
MaxCalls == 2       \* function-call events the relay receives
NumClients == 2     \* clients of one relay
MaxClientEvents == 1 \* messages handled for each client of the relay
AuthMaxTime == 4    \* the clock of the auth server stops advancing here
MaxTokens == 2      \* tokens the auth server issues

\* ------------------------------------------------- realtime_server.py:30-33
AUDIO_SEND_INTERVAL == 1
MAX_AUDIO_BATCH_SIZE == 5
RETRY_DELAY_429 == 3
MAX_RETRIES == 3

\* ------------------------------------------------------------- main.py
SPEECH_TIMEOUT == 1             \* line 622, seconds
MIN_AUDIO_BYTES == 24000        \* line 737: 24000 * 2 * 0.5
GREETING_PLAYBACK == 15         \* line 697, seconds
WAV_HEADER_EXTRA == 36          \* line 95

\* lines 470-475: 250 ms of 24 kHz 16-bit mono audio
CHUNK_BYTES == 12000

\* ------------------------------------------------------- voice_server.py
END_OF_TURN_GAP == 2            \* line 597, seconds

\* sizes in bytes of the decoded audio of an audio-append message; 0 is a
\* message whose "audio" field is empty
ChunkSizes == {0, 8000, 24000}

VARIABLES
    now,                    \* wall clock, seconds
    \* --- RealtimeWebSocketServer, one client
    audio_buffer,           \* self.audio_buffer[client_id], a deque(maxlen=5)
    last_audio_send_time,   \* self.last_audio_send_time[client_id]
    pending_transcriptions, \* self.pending_transcriptions[client_id]
    rpc,                    \* position of proxy_client_to_openai
    frame,                  \* locals of the running handler / _send_with_retry
    nextMsg,                \* id of the next audio-append message
    nCtl,                   \* non-audio messages received so far
    nFaults,                \* failed send attempts so far
    sentLog,                \* audio message ids transmitted upstream, in order
    ctlSent,                \* non-audio messages transmitted upstream
    flushLog,               \* the last two flushes: start time, size, sent
                            \*   (older flushes are forgotten)
    dropped,                \* audio ids whose retries were exhausted
    raised,                 \* outcome of the last _send_with_retry call
    opc,                    \* position of proxy_openai_to_client
    cleaned,                \* the finally clause of handle_client has run
    burstLog,               \* burst scenario: per audio message, when its
                            \* handler ran, the pending counter it read
                            \* and the size of the flush it started
    \* --- VoiceServer._websocket_handler, one connection
    session_audio_buffer,   \* audio_buffer: chunks [id, size] of the utterance
    last_speech_time,       \* last_speech_time
    greeting_task,          \* "none" (None), "running" or "done"
    gpc,                    \* position of _send_greeting_and_overview
    greeting_start_time,    \* greeting_start_time, 0 for None
    greeting_audio_finished_at, \* 0 for None
    hpc,                    \* position of the handler
    success,                \* result of the last _process_utterance
    nChunks,                \* audio-append messages handled so far
    nInterrupts,            \* speech_started messages handled so far
    accepted,               \* ids of the chunks appended to audio_buffer
    sttCalls,               \* the transcription requests issued
    clientLog,              \* messages delivered to the client, in order
    interruptedAt,          \* Len(clientLog) when a speech_started was
                            \* handled during the greeting, else -1
    inbox,                  \* messages received by the connection that the
                            \* handler has not read yet (async for msg in ws)
    arrival,                \* per chunk id: what the session was doing when
                            \* the client sent it
    agent_state,            \* self.agent.state: "active" or "completed"
    \* --- FluxVoiceSession, one connection
    flux_audio_buffer,      \* self.audio_buffer: ids of the chunks
    last_audio_time,        \* self.last_audio_time, 0 while not set
    fpc,                    \* position of the message loop
    fcur,                   \* current_time of the running handle_audio
    fstack,                 \* tool calls left in each _handle_tool_calls
    fturn,                  \* end-of-turns handled so far
    conversation_history,   \* roles of self.conversation_history
    tts_queue,              \* self.tts_queue: turn of each queued text
    tpc,                    \* position of _process_tts_queue
    ttsCur,                 \* turn of the text in _generate_tts, -1 if none
    is_speaking,            \* self.is_speaking
    nFluxChunks,            \* audio messages handled so far
    nLlm,                   \* chat-completion requests so far
    fluxStt,                \* audio of the STT requests issued
    fluxLog,                \* messages delivered to the client, in order
    \* --- SupabaseClient: the tables and the answers of the calls
    users,                  \* table users, in order of insertion
    conversation_messages,  \* table conversation_messages, likewise
    userCalls,              \* email, name and returned id of each
                            \* get_or_create_user call
    lastHistory,            \* the last get_conversation_history call
    \* --- VoiceServer: the connections of one server and what they share
    agent,                  \* self.agent, one object for every connection
    sessions,               \* keys of self.sessions
    conn,                   \* per connection: "none", "open" or "closed"
    gtask,                  \* per connection: the greeting task
    greeted,                \* per connection: whose user info its greeting
                            \* addressed, 0 if none
    turns,                  \* per connection: the user info held by the
                            \* agent at each process_message call
    \* --- handle_function_call of the relay
    callEvents,             \* the function-call events received
    callSent,               \* what handle_function_call sent upstream
    openai_open,            \* the upstream connection accepts sends
    \* --- the relay's per-client dictionaries
    relay,                  \* the RealtimeWebSocketServer object: clients
                            \* and the six dictionaries keyed by client_id
    cpc,                    \* per client: position of its handle_client
    cevents,                \* per client: messages handled for it so far
    \* --- auth_server.py
    active_tokens,          \* the dictionary active_tokens
    issued,                 \* every token /token has returned
    revoked,                \* every token /token/revoke has revoked
    found_expired,          \* every token an expiry test has found expired
    lastReply,              \* the reply to the last /token/validate call
    cleanup                 \* the clean-up thread: its position and locals

sessVars == <<session_audio_buffer, last_speech_time, greeting_task, gpc,
              greeting_start_time, greeting_audio_finished_at, hpc, success,
              nChunks, nInterrupts, accepted, sttCalls, clientLog,
              interruptedAt, inbox, arrival, agent_state>>

relayVars == <<audio_buffer, last_audio_send_time, pending_transcriptions,
               rpc, frame, nextMsg, nCtl, nFaults, sentLog, ctlSent,
               flushLog, dropped, raised, opc, cleaned, burstLog>>

fluxVars == <<flux_audio_buffer, last_audio_time, fpc, fcur, fstack, fturn,
              conversation_history, tts_queue, tpc, ttsCur, is_speaking,
              nFluxChunks, nLlm, fluxStt, fluxLog>>

dbVars == <<users, conversation_messages, userCalls, lastHistory>>

serverVars == <<agent, sessions, conn, gtask, greeted, turns>>

callVars == <<callEvents, callSent, openai_open>>

\* the relay's other handlers and the auth server
clientVars == <<relay, cpc, cevents>>

authVars == <<active_tokens, issued, revoked, found_expired, lastReply,
              cleanup>>

auxVars == <<callVars, clientVars, authVars>>

restVars == <<dbVars, serverVars, auxVars>>

vars == <<now, relayVars, sessVars, fluxVars, restVars>>

Range(s) == {s[i] : i \in 1..Len(s)}

\* ------------------------------------------------------------------ relay
NoFrame == [kind |-> "none", idx |-> 0, retries |-> 0, wake |-> 0,
            current_time |-> 0, attempts |-> <<>>]

NoRaise == [kind |-> "none", msg |-> 0, attempts |-> <<>>]

\* (mutant) a deque created without maxlen
DequeAppendUnbounded(q, m) == Append(q, m)

\* deque(maxlen=MAX_AUDIO_BATCH_SIZE).append: a full deque discards its
\* oldest element
DequeAppend(q, m) ==
    IF Len(q) >= MAX_AUDIO_BATCH_SIZE THEN Append(Tail(q), m) ELSE Append(q, m)

\* (mutant) the pacing test left out: every message is sent on arrival
ShouldSendUnpaced(time_since_last_send, q, pending) == ~(pending > 0)

\* lines 159-167
ShouldSend(time_since_last_send, q, pending) ==
    /\ \/ time_since_last_send >= AUDIO_SEND_INTERVAL
       \/ Len(q) >= MAX_AUDIO_BATCH_SIZE
    /\ ~(pending > 0)

\* (mutant) off by one in the retry bound
MayRetryOneMore(retries) == retries <= MAX_RETRIES

\* line 199
MayRetry(retries) == retries < MAX_RETRIES

\* line 201
RetryWake(t) == t + RETRY_DELAY_429

\* keep the two most recent flushes
Last2(s) == IF Len(s) > 2 THEN SubSeq(s, Len(s) - 1, Len(s)) ELSE s

RelayIdle ==
    /\ audio_buffer = <<>>
    /\ last_audio_send_time = 0
    /\ pending_transcriptions = 0
    /\ rpc = "recv"
    /\ frame = NoFrame
    /\ nextMsg = 1
    /\ nCtl = 0
    /\ nFaults = 0
    /\ sentLog = <<>>
    /\ ctlSent = 0
    /\ flushLog = <<>>
    /\ dropped = {}
    /\ raised = NoRaise
    /\ opc = "recv"
    /\ cleaned = FALSE
    /\ burstLog = <<>>

\* a voice session that has not been opened
SessIdle ==
    /\ session_audio_buffer = <<>>
    /\ last_speech_time = 0
    /\ greeting_task = "none"
    /\ gpc = "end"
    /\ greeting_start_time = 0
    /\ greeting_audio_finished_at = 0
    /\ hpc = "recv"
    /\ success = "none"
    /\ nChunks = 0
    /\ nInterrupts = 0
    /\ accepted = <<>>
    /\ sttCalls = <<>>
    /\ clientLog = <<>>
    /\ interruptedAt = -1
    /\ inbox = <<>>
    /\ arrival = <<>>
    /\ agent_state = "active"

\* no database call has been made, no connection has been opened, no
\* function call has been received
RestIdle ==
    /\ users = <<>>
    /\ conversation_messages = <<>>
    /\ userCalls = <<>>
    /\ lastHistory = [session_id |-> 0, limit |-> 0, data |-> <<>>,
                      stored |-> <<>>]
    /\ agent = [user_info |-> 0, ready |-> FALSE]
    /\ sessions = {}
    /\ conn = [c \in 1..NumSessions |-> "none"]
    /\ gtask = [c \in 1..NumSessions |-> "none"]
    /\ greeted = [c \in 1..NumSessions |-> 0]
    /\ turns = [c \in 1..NumSessions |-> <<>>]
    /\ callEvents = <<>>
    /\ callSent = <<>>
    /\ openai_open = TRUE
    /\ relay = [clients |-> {}, session_start_times |-> <<>>,
                conversation_history |-> <<>>,
                last_audio_send_time |-> <<>>, audio_buffer |-> <<>>,
                pending_transcriptions |-> <<>>, rate_limit_stats |-> <<>>]
    /\ cpc = [c \in 1..NumClients |-> "none"]
    /\ cevents = [c \in 1..NumClients |-> 0]
    /\ active_tokens = <<>>
    /\ issued = {}
    /\ revoked = {}
    /\ found_expired = {}
    /\ lastReply = [token |-> <<>>, valid |-> FALSE, status |-> 0, at |-> 0]
    /\ cleanup = [pc |-> "sleep", current_time |-> 0,
                  expired_tokens |-> <<>>, scanned |-> {}, size |-> 0]

\* a Flux session that has not been opened
FluxIdle ==
    /\ flux_audio_buffer = <<>>
    /\ last_audio_time = 0
    /\ fpc = "recv"
    /\ fcur = 0
    /\ fstack = <<>>
    /\ fturn = 0
    /\ conversation_history = <<>>
    /\ tts_queue = <<>>
    /\ tpc = "get"
    /\ ttsCur = -1
    /\ is_speaking = FALSE
    /\ nFluxChunks = 0
    /\ nLlm = 0
    /\ fluxStt = <<>>
    /\ fluxLog = <<>>

RelayInit ==
    /\ now = StartTime
    /\ RelayIdle
    /\ SessIdle
    /\ FluxIdle
    /\ RestIdle

\* _handle_audio_message up to its first await
ReceiveAudio ==
    /\ rpc = "recv"
    /\ LET current_time == now
           time_since_last_send == current_time - last_audio_send_time
           q == DequeAppend(audio_buffer, nextMsg)
       IN /\ audio_buffer' = q
          /\ nextMsg' = nextMsg + 1
          /\ raised' = NoRaise
          /\ IF ShouldSend(time_since_last_send, q, pending_transcriptions)
                /\ Len(q) > 0
             THEN /\ rpc' = "send"
                  /\ frame' = [kind |-> "audio", idx |-> 1, retries |-> 0,
                               wake |-> 0, current_time |-> current_time,
                               attempts |-> <<>>]
                  /\ flushLog' = Last2(Append(flushLog,
                                   [start |-> current_time,
                                    size |-> Len(q), sent |-> 0]))
             ELSE /\ UNCHANGED <<rpc, frame, flushLog>>
    /\ UNCHANGED <<now, last_audio_send_time, pending_transcriptions, nCtl,
                   nFaults, sentLog, ctlSent, dropped,
                   opc, cleaned, sessVars, fluxVars, restVars>>

\* proxy_client_to_openai receives an input_audio_buffer.append message
HandleAudioMessage ==
    /\ nextMsg <= MaxMsgs
    /\ ReceiveAudio
    /\ UNCHANGED burstLog

\* (mutant) the other messages are held back like the audio
ControlMaySendPaced(time_since_last_send, q, pending) ==
    ShouldSend(time_since_last_send, q, pending)

\* lines 136-138: the else branch calls _send_with_retry unconditionally
ControlMaySend(time_since_last_send, q, pending) == TRUE

\* proxy_client_to_openai receives any other message: forwarded at once
HandleControlMessage ==
    /\ rpc = "recv"
    /\ nCtl < MaxCtl
    /\ nCtl' = nCtl + 1
    /\ IF ControlMaySend(now - last_audio_send_time, audio_buffer,
                         pending_transcriptions)
       THEN /\ rpc' = "send"
            /\ frame' = [kind |-> "control", idx |-> 0, retries |-> 0,
                         wake |-> 0, current_time |-> now,
                         attempts |-> <<>>]
       ELSE UNCHANGED <<rpc, frame>>
    /\ raised' = NoRaise
    /\ UNCHANGED <<now, audio_buffer, last_audio_send_time,
                   pending_transcriptions, nextMsg, nFaults, sentLog, ctlSent,
                   flushLog, dropped,
                   opc, cleaned, burstLog, sessVars,
                   fluxVars, restVars>>

CurMsg == IF frame.kind = "audio" THEN audio_buffer[frame.idx] ELSE 0

BumpSent(fl) == [fl EXCEPT ![Len(fl)].sent = @ + 1]

\* await openai_ws.send(message) returns
SendOk ==
    /\ rpc = "send"
    /\ raised' = NoRaise
    /\ IF frame.kind = "audio"
       THEN /\ sentLog' = Append(sentLog, CurMsg)
            /\ flushLog' = BumpSent(flushLog)
            /\ ctlSent' = ctlSent
            /\ IF frame.idx < Len(audio_buffer)
               THEN \* next iteration of the for loop: a fresh _send_with_retry
                    /\ frame' = [frame EXCEPT !.idx = @ + 1, !.retries = 0,
                                              !.attempts = <<>>]
                    /\ UNCHANGED <<rpc, audio_buffer, last_audio_send_time>>
               ELSE \* lines 181-182
                    /\ audio_buffer' = <<>>
                    /\ last_audio_send_time' = frame.current_time
                    /\ rpc' = "recv"
                    /\ frame' = NoFrame
       ELSE /\ ctlSent' = ctlSent + 1
            /\ rpc' = "recv"
            /\ frame' = NoFrame
            /\ UNCHANGED <<sentLog, flushLog, audio_buffer,
                           last_audio_send_time>>
    /\ UNCHANGED <<now, pending_transcriptions, nextMsg, nCtl, nFaults,
                   dropped,
                   opc, cleaned, burstLog, sessVars,
                   fluxVars, restVars>>

\* (mutant) the exception ends the receive loop
AfterSendFailureLeaves == "done"

\* lines 129-145: the inner try is inside the async for, so after the
\* except clause the loop waits for the next client message
AfterSendFailure == "recv"

\* the exception leaves _send_with_retry and _handle_audio_message and is
\* logged by the except clause of the receive loop (lines 144-145)
RaiseToLoop(kind) ==
    /\ raised' = [kind |-> kind, msg |-> CurMsg,
                  attempts |-> Append(frame.attempts, now)]
    /\ dropped' = IF kind = "429" /\ frame.kind = "audio"
                  THEN dropped \cup {CurMsg} ELSE dropped
    /\ rpc' = AfterSendFailure
    /\ frame' = NoFrame

\* await openai_ws.send(message) raises an error naming 429 / rate limit
Send429 ==
    /\ rpc = "send"
    /\ nFaults < MaxFaults
    /\ nFaults' = nFaults + 1
    /\ IF MayRetry(frame.retries)
       THEN /\ rpc' = "sleep"
            /\ frame' = [frame EXCEPT !.wake = RetryWake(now),
                                      !.attempts = Append(@, now)]
            /\ UNCHANGED <<raised, dropped>>
       ELSE RaiseToLoop("429")
    /\ UNCHANGED <<now, audio_buffer, last_audio_send_time,
                   pending_transcriptions, nextMsg, nCtl, sentLog, ctlSent,
                   flushLog,
                   opc, cleaned, burstLog, sessVars,
                   fluxVars, restVars>>

\* await openai_ws.send(message) raises any other error
SendError ==
    /\ rpc = "send"
    /\ nFaults < MaxFaults
    /\ nFaults' = nFaults + 1
    /\ RaiseToLoop("error")
    /\ UNCHANGED <<now, audio_buffer, last_audio_send_time,
                   pending_transcriptions, nextMsg, nCtl, sentLog, ctlSent,
                   flushLog,
                   opc, cleaned, burstLog, sessVars,
                   fluxVars, restVars>>

\* asyncio.sleep(RETRY_DELAY_429) is over: the recursive call
RetryAfterSleep ==
    /\ rpc = "sleep"
    /\ now >= frame.wake
    /\ rpc' = "send"
    /\ frame' = [frame EXCEPT !.retries = @ + 1]
    /\ UNCHANGED <<now, audio_buffer, last_audio_send_time,
                   pending_transcriptions, nextMsg, nCtl, nFaults, sentLog,
                   ctlSent, flushLog, dropped, raised,
                   opc, cleaned, burstLog, sessVars,
                   fluxVars, restVars>>

\* proxy_openai_to_client: input_audio_buffer.speech_started
UpstreamSpeechStarted ==
    /\ opc = "recv"
    /\ pending_transcriptions < MaxPending
    /\ pending_transcriptions' = pending_transcriptions + 1
    /\ UNCHANGED <<now, audio_buffer, last_audio_send_time, rpc, frame,
                   nextMsg, nCtl, nFaults, sentLog, ctlSent, flushLog,
                   dropped, raised,
                   opc, cleaned, burstLog, sessVars,
                   fluxVars, restVars>>

\* proxy_openai_to_client: ...input_audio_transcription.completed / .failed
UpstreamTranscriptionDone ==
    /\ opc = "recv"
    /\ pending_transcriptions > 0
    /\ pending_transcriptions' = pending_transcriptions - 1
    /\ UNCHANGED <<now, audio_buffer, last_audio_send_time, rpc, frame,
                   nextMsg, nCtl, nFaults, sentLog, ctlSent, flushLog,
                   dropped, raised,
                   opc, cleaned, burstLog, sessVars,
                   fluxVars, restVars>>


\* lines 147-148: the client connection is closed; the receive loop of
\* proxy_client_to_openai ends and the coroutine returns
ClientCloses ==
    /\ rpc = "recv"
    /\ rpc' = "done"
    /\ UNCHANGED <<now, audio_buffer, last_audio_send_time,
                   pending_transcriptions, frame, nextMsg, nCtl, nFaults,
                   sentLog, ctlSent, flushLog, dropped, raised,
                   opc, cleaned, burstLog, sessVars,
                   fluxVars, restVars>>

\* lines 275-276: the upstream connection is closed; the receive loop of
\* proxy_openai_to_client ends.  (Followed here once the client has gone.)
UpstreamCloses ==
    /\ rpc = "done"
    /\ opc = "recv"
    /\ opc' = "done"
    /\ UNCHANGED <<now, audio_buffer, last_audio_send_time,
                   pending_transcriptions, rpc, frame, nextMsg, nCtl,
                   nFaults, sentLog, ctlSent, flushLog, dropped, raised,
                   cleaned, burstLog, sessVars, fluxVars, restVars>>

\* (mutant) the cleanup does not wait for proxy_openai_to_client
BothProxiesDoneClientOnly(c2o, o2c) == c2o = "done"

\* lines 566-570: asyncio.gather returns when both coroutines have returned
BothProxiesDone(c2o, o2c) == c2o = "done" /\ o2c = "done"

\* lines 579-604: the finally clause of handle_client deletes the entries
\* of the client and closes the upstream connection
Cleanup ==
    /\ BothProxiesDone(rpc, opc)
    /\ ~cleaned
    /\ cleaned' = TRUE
    /\ audio_buffer' = <<>>
    /\ last_audio_send_time' = 0
    /\ pending_transcriptions' = 0
    /\ UNCHANGED <<now, rpc, frame, nextMsg, nCtl, nFaults, sentLog,
                   ctlSent, flushLog, dropped, raised, opc, burstLog,
                   sessVars, fluxVars, restVars>>

\* Time passes.  The relay reads the clock only to compare it with
\* last_audio_send_time + AUDIO_SEND_INTERVAL and with the end of a retry
\* sleep, so the clock is advanced only while one of the two lies ahead.
Tick ==
    /\ now < MaxTime
    /\ \/ rpc = "sleep" /\ now < frame.wake
       \/ now - last_audio_send_time < AUDIO_SEND_INTERVAL
    /\ now' = now + 1
    /\ UNCHANGED <<relayVars, sessVars, fluxVars, restVars>>

RelayNext ==
    \/ HandleAudioMessage
    \/ HandleControlMessage
    \/ SendOk
    \/ Send429
    \/ SendError
    \/ RetryAfterSleep
    \/ UpstreamSpeechStarted
    \/ UpstreamTranscriptionDone
    \/ ClientCloses
    \/ UpstreamCloses
    \/ Cleanup
    \/ Tick

SpecRelay == RelayInit /\ [][RelayNext]_vars

\* the steps of the relay itself happen when they can; nothing obliges the
\* client or the upstream service to send, to answer or to close
SpecRelayLive ==
    RelayInit /\ [][RelayNext]_vars
       /\ WF_vars(RetryAfterSleep) /\ WF_vars(Cleanup) /\ WF_vars(Tick)

\* ---- the burst scenario: a client that only sends audio, an upstream
\* ---- connection on which no send fails
\* proxy_client_to_openai receives an input_audio_buffer.append message; the
\* time, the counter read at line 165 and the flush started are recorded
BurstAudioMessage ==
    /\ nextMsg <= MaxBurst
    /\ ReceiveAudio
    /\ burstLog' = Append(burstLog,
                      [at |-> now,
                       pending |-> pending_transcriptions,
                       flush |-> IF rpc' = "send"
                                 THEN Len(audio_buffer') ELSE 0])

BurstNext ==
    \/ BurstAudioMessage
    \/ SendOk
    \/ UpstreamSpeechStarted
    \/ UpstreamTranscriptionDone
    \/ Tick

SpecBurst == RelayInit /\ [][BurstNext]_vars

\* ------------------------------------------------- voice session (main.py)
\* One connection served by VoiceServer._websocket_handler.  The handler
\* awaits _process_utterance inline, so it receives no message while an
\* utterance is processed; the greeting runs as a separate task.

Stages == {"stt", "llm", "tts"}

RECURSIVE Bytes(_)
\* line 734: sum(len(chunk) for chunk in audio_buffer)
Bytes(buf) == IF buf = <<>> THEN 0 ELSE buf[1].size + Bytes(Tail(buf))

\* line 748: b''.join(audio_buffer); the bytes of a chunk are named by its id
Join(buf) == [i \in 1..Len(buf) |-> buf[i].id]

\* _create_wav_header: the RIFF/WAVE header sizes followed by the audio
CreateWavHeader(buf) ==
    [file_size |-> WAV_HEADER_EXTRA + Bytes(buf),
     data_size |-> Bytes(buf),
     data |-> Join(buf)]

\* (mutant) the minimum-audio test left out
BelowFloorNever(total) == FALSE

\* line 737
BelowFloor(total) == total < MIN_AUDIO_BYTES

\* line 744
ShouldProcess(silence_duration, total) ==
    silence_duration >= SPEECH_TIMEOUT /\ total > 0

\* (mutant) the accumulation is not reset after an utterance
KeepAccumulation(buf) == buf

\* line 757
ResetAccumulation(buf) == <<>>

\* lines 685-711: "wait" skips the message, "finish" ends the greeting phase
GreetingGate(task, finished_at, start, t) ==
    IF task = "running" THEN "wait"
    ELSE IF task = "done" /\ finished_at = 0
         THEN IF (IF start # 0 THEN t - start ELSE 0) < GREETING_PLAYBACK
              THEN "wait" ELSE "finish"
         ELSE "pass"

\* line 666: current_response_task is never assigned after this line
current_response_task == "none"

Msg(type, turn) == [type |-> type, turn |-> turn]

\* (mutant) the completion event sent before the audio
AudioMessagesSwapped(turn) ==
    <<Msg("response.audio.done", turn), Msg("response.audio.delta", turn)>>

\* lines 588-595 (and 310-316, 368-374 in the greeting)
AudioMessages(turn) ==
    <<Msg("response.audio.delta", turn), Msg("response.audio.done", turn)>>

SessInit ==
    /\ now = StartTime
    /\ RelayIdle
    /\ FluxIdle
    /\ RestIdle
    /\ \E user_info \in BOOLEAN :       \* lines 654-660
          /\ greeting_task = IF user_info THEN "running" ELSE "none"
          /\ gpc = IF user_info THEN "g_text" ELSE "end"
          /\ greeting_start_time = IF user_info THEN StartTime ELSE 0
    /\ session_audio_buffer = <<>>
    /\ last_speech_time = 0
    /\ greeting_audio_finished_at = 0
    /\ hpc = "recv"
    /\ success = "none"
    /\ nChunks = 0
    /\ nInterrupts = 0
    /\ accepted = <<>>
    /\ sttCalls = <<>>
    /\ clientLog = <<>>
    /\ interruptedAt = -1
    /\ inbox = <<>>
    /\ arrival = <<>>
    /\ agent_state = "active"

\* lines 674-680: the handler reads an input_audio_buffer.speech_started
SpeechStarted ==
    /\ current_response_task = "none"       \* nothing to cancel
    /\ interruptedAt' = IF greeting_task = "running" /\ interruptedAt = -1
                        THEN Len(clientLog) ELSE interruptedAt
    /\ UNCHANGED <<session_audio_buffer, last_speech_time,
                   greeting_task, greeting_audio_finished_at, hpc,
                   accepted, sttCalls>>

\* lines 683-758: the handler reads an input_audio_buffer.append carrying
\* size bytes of audio, up to the call of the transcription service inside
\* _process_utterance
AudioAppend(id, size) ==
    /\ LET gate == GreetingGate(greeting_task, greeting_audio_finished_at,
                                greeting_start_time, now)
           buf0 == IF gate = "finish" THEN <<>> ELSE session_audio_buffer
           lst0 == IF gate = "finish" THEN 0 ELSE last_speech_time
       IN /\ greeting_task' = IF gate = "finish" THEN "none"
                              ELSE greeting_task
          /\ greeting_audio_finished_at' =
                IF gate = "finish" THEN now ELSE greeting_audio_finished_at
          /\ IF gate = "wait" \/ size = 0
             THEN /\ session_audio_buffer' = buf0
                  /\ last_speech_time' = lst0
                  /\ UNCHANGED <<hpc, accepted, sttCalls>>
             ELSE LET current_time == now
                      lst1 == IF buf0 = <<>> THEN current_time ELSE lst0
                      buf1 == Append(buf0, [id |-> id,
                                            size |-> size,
                                            t |-> current_time])
                      total_audio_size == Bytes(buf1)
                      silence_duration == current_time - lst1
                  IN /\ session_audio_buffer' = buf1
                     /\ last_speech_time' = lst1
                     /\ accepted' = Append(accepted, id)
                     /\ IF /\ ~BelowFloor(total_audio_size)
                           /\ ShouldProcess(silence_duration,
                                            total_audio_size)
                        THEN /\ hpc' = "stt"
                             /\ sttCalls' = Append(sttCalls,
                                   [wav |-> CreateWavHeader(buf1),
                                    upto |-> Len(accepted) + 1])
                        ELSE UNCHANGED <<hpc, sttCalls>>
    /\ UNCHANGED interruptedAt

\* what the session is doing when the client sends a message: "turn" while
\* an utterance is processed, "greeting" while the greeting gate is closed
Phase ==
    IF hpc \in Stages THEN "turn"
    ELSE IF GreetingGate(greeting_task, greeting_audio_finished_at,
                         greeting_start_time, now) = "wait"
         THEN "greeting" ELSE "listening"

\* a speech_started was sent earlier in the same turn / during the greeting
Interrupted ==
    IF hpc \in Stages
    THEN \E i \in 1..Len(inbox) :
            inbox[i].type = "speech_started" /\ inbox[i].turn = Len(sttCalls)
    ELSE interruptedAt >= 0

Arrival(size) ==
    [phase |-> Phase, turn |-> IF hpc \in Stages THEN Len(sttCalls) ELSE 0,
     int |-> Interrupted, audio |-> size > 0]

\* (mutant) what the client sent during a turn is thrown away
UnreadDropped(q) == <<>>

\* lines 669, 752: nothing reads the connection while _process_utterance is
\* awaited, so what the client sent meanwhile is still there afterwards
Unread(q) == q

\* the client sends a speech_started while the handler waits at line 669
HandleSpeechStarted ==
    /\ hpc = "recv"
    /\ inbox = <<>>
    /\ nInterrupts < MaxInterrupts
    /\ nInterrupts' = nInterrupts + 1
    /\ SpeechStarted
    /\ UNCHANGED <<now, relayVars, fluxVars, restVars, agent_state,
                   gpc, greeting_start_time, success, nChunks,
                   clientLog, inbox, arrival>>

\* line 669: the handler, waiting for a message, reads an audio chunk
ReadAudioAppend(size) ==
    /\ hpc = "recv"
    /\ inbox = <<>>
    /\ nChunks' = nChunks + 1
    /\ AudioAppend(nChunks + 1, size)
    /\ UNCHANGED <<now, relayVars, fluxVars, restVars, agent_state,
                   gpc, greeting_start_time, success,
                   nInterrupts, clientLog, inbox>>

\* the client sends an audio chunk while the handler waits at line 669
HandleAudioAppend(size) ==
    /\ nChunks < MaxChunks
    /\ arrival' = Append(arrival, Arrival(size))
    /\ ReadAudioAppend(size)

\* the client sends a message while the handler awaits _process_utterance
\* (line 752): the connection keeps it until the handler reads again
SendsDuringTurn(type, size, sent) ==
    /\ hpc \in Stages
    /\ Len(inbox) < MaxInbox
    /\ IF type = "audio"
       THEN /\ nChunks' = nChunks + 1
            /\ arrival' = Append(arrival, sent)
            /\ inbox' = Append(inbox, [type |-> "audio", id |-> nChunks + 1,
                                       size |-> size, turn |-> Len(sttCalls)])
            /\ UNCHANGED nInterrupts
       ELSE /\ size = 0
            /\ nInterrupts < MaxInterrupts
            /\ nInterrupts' = nInterrupts + 1
            /\ inbox' = Append(inbox, [type |-> "speech_started", id |-> 0,
                                       size |-> 0, turn |-> Len(sttCalls)])
            /\ UNCHANGED <<nChunks, arrival>>
    /\ UNCHANGED <<now, relayVars, fluxVars, restVars, agent_state,
                   session_audio_buffer, last_speech_time,
                   greeting_task, gpc, greeting_start_time,
                   greeting_audio_finished_at, hpc, success,
                   accepted, sttCalls, clientLog, interruptedAt>>

ClientSendsDuringTurn(type, size) ==
    /\ type = "audio" => nChunks < MaxChunks
    /\ SendsDuringTurn(type, size, Arrival(size))

\* lines 671, 767-773: the client sends a text message that is not JSON;
\* json.loads raises, the handler logs the exception, runs agent.cleanup()
\* and returns
HandleMalformed ==
    /\ hpc = "recv"
    /\ inbox = <<>>
    /\ hpc' = "aborted"
    /\ UNCHANGED <<now, relayVars, fluxVars, restVars, agent_state,
                   session_audio_buffer, last_speech_time,
                   greeting_task, gpc, greeting_start_time,
                   greeting_audio_finished_at, success, nChunks,
                   nInterrupts, accepted, sttCalls, clientLog,
                   interruptedAt, inbox, arrival>>

\* line 669: the handler reads the next waiting message
HandleQueued ==
    /\ hpc = "recv"
    /\ inbox # <<>>
    /\ LET m == Head(inbox)
       IN /\ inbox' = Tail(inbox)
          /\ IF m.type = "audio" THEN AudioAppend(m.id, m.size)
             ELSE SpeechStarted
    /\ UNCHANGED <<now, relayVars, fluxVars, restVars, agent_state,
                   gpc, greeting_start_time, success, nChunks,
                   nInterrupts, clientLog, arrival>>

\* _process_utterance returns ok; lines 756-762
EndUtterance(ok) ==
    /\ session_audio_buffer' = ResetAccumulation(session_audio_buffer)
    /\ last_speech_time' = 0
    /\ success' = IF ok THEN "true" ELSE "false"
    /\ inbox' = Unread(inbox)
    /\ hpc' = IF ok /\ agent_state' = "completed" THEN "closed" ELSE "recv"

Turn == Len(sttCalls)

\* (mutant) an empty transcript is reported to the client
OnNoTranscriptReported(log, turn) == Append(log, Msg("error", turn))

\* lines 495-497: a warning is logged, nothing is sent to the client
OnNoTranscript(log, turn) == log

\* lines 604-606: the exception is logged, nothing is sent to the client
OnException(log, turn) == log

\* lines 487-528: the transcription answers
SttResult(outcome) ==
    /\ hpc = "stt"
    /\ agent_state' = agent_state
    /\ CASE outcome = "text" ->
              /\ clientLog' = Append(clientLog, Msg("user.transcript", Turn))
              /\ hpc' = "llm"
              /\ UNCHANGED <<session_audio_buffer, last_speech_time, success,
                             inbox>>
         [] outcome = "empty" ->
              /\ clientLog' = OnNoTranscript(clientLog, Turn)
              /\ EndUtterance(FALSE)
         [] OTHER ->
              /\ clientLog' = OnException(clientLog, Turn)
              /\ EndUtterance(FALSE)
    /\ UNCHANGED <<now, relayVars, fluxVars, restVars,
                   greeting_task, gpc, greeting_start_time,
                   greeting_audio_finished_at, nChunks, nInterrupts,
                   accepted, sttCalls, interruptedAt,
                   arrival>>

\* lines 533-571: agent.process_message answers.  The call belongs to
\* BackgroundAgent, whose code is not part of the sources: it may leave
\* agent.state at either value
LlmResult(outcome) ==
    /\ hpc = "llm"
    /\ agent_state' \in {"active", "completed"}
    /\ CASE outcome = "text" ->
              /\ clientLog' = Append(clientLog, Msg("response.text", Turn))
              /\ hpc' = "tts"
              /\ UNCHANGED <<session_audio_buffer, last_speech_time, success,
                             inbox>>
         [] outcome = "empty" ->
              /\ clientLog' = Append(clientLog, Msg("session.close", Turn))
              /\ EndUtterance(TRUE)
         [] OTHER ->
              /\ clientLog' = OnException(clientLog, Turn)
              /\ EndUtterance(FALSE)
    /\ UNCHANGED <<now, relayVars, fluxVars, restVars,
                   greeting_task, gpc, greeting_start_time,
                   greeting_audio_finished_at, nChunks, nInterrupts,
                   accepted, sttCalls, interruptedAt,
                   arrival>>

\* (mutant) a turn without audio is reported as failed
TurnResultNeedsAudio(audio_data) == audio_data = "audio"

\* lines 596-603: the turn is successful with or without audio
TurnResult(audio_data) == TRUE

\* lines 575-603: _synthesize_speech answers, returns None or times out
TtsResult(outcome) ==
    /\ hpc = "tts"
    /\ clientLog' = IF outcome = "audio"
                    THEN clientLog \o AudioMessages(Turn) ELSE clientLog
    /\ agent_state' = agent_state
    /\ EndUtterance(TurnResult(outcome))
    /\ UNCHANGED <<now, relayVars, fluxVars, restVars,
                   greeting_task, gpc, greeting_start_time,
                   greeting_audio_finished_at, nChunks, nInterrupts,
                   accepted, sttCalls, interruptedAt,
                   arrival>>

\* _send_greeting_and_overview, lines 298-301 and 353-356
GreetingText ==
    /\ greeting_task = "running"
    /\ gpc \in {"g_text", "o_text"}
    /\ clientLog' = Append(clientLog, Msg("response.text", 0))
    /\ gpc' = IF gpc = "g_text" THEN "g_tts" ELSE "o_tts"
    /\ UNCHANGED <<now, relayVars, fluxVars, restVars, agent_state,
                   session_audio_buffer, last_speech_time,
                   greeting_task, greeting_start_time,
                   greeting_audio_finished_at, hpc, success, nChunks,
                   nInterrupts, accepted, sttCalls, interruptedAt,
                   inbox, arrival>>

\* lines 304-321 and 361-384: synthesis of the greeting / of the overview
GreetingAudio(outcome) ==
    /\ greeting_task = "running"
    /\ gpc \in {"g_tts", "o_tts"}
    /\ clientLog' = IF outcome = "audio"
                    THEN clientLog \o AudioMessages(0) ELSE clientLog
    /\ gpc' = IF gpc = "g_tts" THEN "g_sleep" ELSE "end"
    /\ greeting_task' = IF gpc = "o_tts" THEN "done" ELSE greeting_task
    /\ UNCHANGED <<now, relayVars, fluxVars, restVars, agent_state,
                   session_audio_buffer, last_speech_time,
                   greeting_start_time, greeting_audio_finished_at, hpc,
                   success, nChunks, nInterrupts, accepted, sttCalls,
                   interruptedAt,
                   inbox, arrival>>

\* line 324: asyncio.sleep(0.3)
GreetingSleep ==
    /\ greeting_task = "running"
    /\ gpc = "g_sleep"
    /\ gpc' = "o_text"
    /\ UNCHANGED <<now, relayVars, fluxVars, restVars, agent_state,
                   session_audio_buffer, last_speech_time,
                   greeting_task, greeting_start_time,
                   greeting_audio_finished_at, hpc, success, nChunks,
                   nInterrupts, accepted, sttCalls, clientLog, interruptedAt,
                   inbox, arrival>>

\* Time passes.  The handler reads the clock only to compare it with
\* greeting_start_time + 15 s and with last_speech_time + SPEECH_TIMEOUT, so
\* the clock is advanced only while one of the two lies ahead, and during
\* the greeting phase straight to the instant at which the comparison of
\* line 697 changes.
SessTick ==
    /\ now < SessMaxTime
    /\ \/ /\ greeting_task # "none"
          /\ now - greeting_start_time < GREETING_PLAYBACK
          /\ now' = greeting_start_time + GREETING_PLAYBACK
       \/ /\ session_audio_buffer # <<>>
          /\ now - last_speech_time < SPEECH_TIMEOUT
          /\ now' = now + 1
    /\ UNCHANGED <<relayVars, sessVars, fluxVars, restVars>>

SessNext ==
    \/ HandleSpeechStarted
    \/ \E size \in ChunkSizes : HandleAudioAppend(size)
    \/ \E size \in ChunkSizes : ClientSendsDuringTurn("audio", size)
    \/ ClientSendsDuringTurn("speech_started", 0)
    \/ HandleQueued
    \/ HandleMalformed
    \/ \E outcome \in {"text", "empty", "error"} : SttResult(outcome)
    \/ \E outcome \in {"text", "empty", "error"} : LlmResult(outcome)
    \/ \E outcome \in {"audio", "none", "timeout"} : TtsResult(outcome)
    \/ GreetingText
    \/ \E outcome \in {"audio", "none", "timeout"} : GreetingAudio(outcome)
    \/ GreetingSleep
    \/ SessTick

SpecSession == SessInit /\ [][SessNext]_vars

\* asyncio.wait_for(..., timeout=8.0) at line 576 ends the wait for the
\* synthesis; no other step of a turn is forced to happen
SpecSessionLive ==
    SessInit /\ [][SessNext]_vars /\ WF_vars(TtsResult("timeout"))

\* ---- the utterance scenario: a connection without greeting on which the
\* ---- client sends audio chunks of CHUNK_BYTES each
ScenarioArrival == [phase |-> Phase, turn |-> Len(sttCalls), at |-> now]

ScenarioInit == SessInit /\ greeting_task = "none"

\* the client sends a chunk while the handler waits at line 669
ScenarioChunk ==
    /\ nChunks < MaxScenarioChunks
    /\ arrival' = Append(arrival, ScenarioArrival)
    /\ ReadAudioAppend(CHUNK_BYTES)

\* the client sends a chunk while _process_utterance is awaited
ScenarioChunkDuringTurn ==
    /\ nChunks < MaxScenarioChunks
    /\ SendsDuringTurn("audio", CHUNK_BYTES, ScenarioArrival)

ScenarioNext ==
    \/ ScenarioChunk
    \/ ScenarioChunkDuringTurn
    \/ HandleQueued
    \/ \E outcome \in {"text", "empty", "error"} : SttResult(outcome)
    \/ \E outcome \in {"text", "empty", "error"} : LlmResult(outcome)
    \/ \E outcome \in {"audio", "none", "timeout"} : TtsResult(outcome)
    \/ SessTick

SpecScenario == ScenarioInit /\ [][ScenarioNext]_vars

\* -------------------------------------- FluxVoiceSession (voice_server.py)
\* handle_client awaits handle_audio inline for every message; the texts
\* to speak go through tts_queue to the TTS task created in initialize.
\* _handle_start_of_turn and _stop_speaking have no caller in the sources,
\* so no action of the session runs them.

\* line 597
GapElapsed(current_time, last) == current_time - last > END_OF_TURN_GAP

RECURSIVE Unwind(_)
\* a _process_with_openai call returns into the _handle_tool_calls loops
\* that are open (lines 449-485): the innermost loop with a tool call left
\* goes on, finished loops return in turn
Unwind(stack) ==
    IF stack = <<>> THEN <<>>
    ELSE IF stack[Len(stack)] > 1
         THEN [stack EXCEPT ![Len(stack)] = @ - 1]
         ELSE Unwind(SubSeq(stack, 1, Len(stack) - 1))

FluxInit ==
    /\ now = StartTime
    /\ RelayIdle
    /\ SessIdle
    /\ RestIdle
    \* FluxVoiceSession.__init__ and initialize(): the TTS task is running,
    \* session.connected was sent and the greeting is queued for speech
    /\ flux_audio_buffer = <<>>
    /\ last_audio_time = 0
    /\ fpc = "recv"
    /\ fcur = 0
    /\ fstack = <<>>
    /\ fturn = 0
    /\ conversation_history = <<"assistant">>
    /\ tts_queue = <<0>>
    /\ tpc = "get"
    /\ ttsCur = -1
    /\ is_speaking = FALSE
    /\ nFluxChunks = 0
    /\ nLlm = 0
    /\ fluxStt = <<>>
    /\ fluxLog = <<Msg("session.connected", 0)>>

\* lines 600-602: handle_audio ends
FinishAudio ==
    /\ flux_audio_buffer' = <<>>
    /\ last_audio_time' = fcur
    /\ fpc' = "recv"
    /\ fstack' = <<>>

\* the outermost _process_with_openai or a nested one returns
ReturnFromOpenai ==
    LET st == Unwind(fstack)
    IN IF st = <<>>
       THEN FinishAudio
       ELSE /\ fstack' = st
            /\ fpc' = "tool"
            /\ UNCHANGED <<flux_audio_buffer, last_audio_time>>

\* handle_audio, lines 584-602, up to the STT request; empty is a message
\* that carries no audio bytes
FluxHandleAudio(empty) ==
    /\ fpc = "recv"
    /\ nFluxChunks < MaxFluxChunks
    /\ nFluxChunks' = nFluxChunks + 1
    /\ LET buf == IF empty THEN flux_audio_buffer
                  ELSE Append(flux_audio_buffer, nFluxChunks + 1)
           last == IF last_audio_time = 0 THEN now ELSE last_audio_time
           current_time == now
       IN /\ flux_audio_buffer' = buf
          /\ IF GapElapsed(current_time, last) /\ buf # <<>>
             THEN /\ fpc' = "stt"
                  /\ fcur' = current_time
                  /\ fluxStt' = Append(fluxStt, buf)
                  /\ last_audio_time' = last
             ELSE /\ last_audio_time' = current_time
                  /\ UNCHANGED <<fpc, fcur, fluxStt>>
    /\ UNCHANGED <<now, relayVars, sessVars, restVars, fstack, fturn,
                   conversation_history, tts_queue, tpc, ttsCur, is_speaking,
                   nLlm, fluxLog>>

\* _process_audio_buffer, lines 622-636, and _handle_end_of_turn up to the
\* chat-completion request
FluxSttResult(outcome) ==
    /\ fpc = "stt"
    /\ IF outcome = "text"
       THEN /\ fluxLog' = Append(fluxLog,
                             Msg("input_audio_buffer.speech_stopped",
                                 fturn + 1))
            /\ fturn' = fturn + 1
            /\ conversation_history' = Append(conversation_history, "user")
            /\ fpc' = "llm"
            /\ nLlm' = nLlm + 1
            /\ UNCHANGED <<flux_audio_buffer, last_audio_time, fstack>>
       ELSE \* blank transcript, HTTP error or exception
            /\ FinishAudio
            /\ UNCHANGED <<fturn, conversation_history, fluxLog, nLlm>>
    /\ UNCHANGED <<now, relayVars, sessVars, restVars,
                   fcur, tts_queue, tpc, ttsCur,
                   is_speaking, nFluxChunks, fluxStt>>

\* _process_with_openai, lines 406-444: the chat completion answers with
\* text, with no content, with n tool calls, or fails
FluxLlmResult(outcome, n) ==
    /\ fpc = "llm"
    /\ CASE outcome = "text" ->
              /\ conversation_history' =
                    Append(conversation_history, "assistant")
              /\ tts_queue' = Append(tts_queue, fturn)
              /\ ReturnFromOpenai
         [] outcome = "empty" ->
              /\ ReturnFromOpenai
              /\ UNCHANGED <<conversation_history, tts_queue>>
         [] outcome = "tools" ->
              /\ nLlm < MaxLlm
              /\ fstack' = Append(fstack, n)
              /\ fpc' = "tool"
              /\ UNCHANGED <<conversation_history, tts_queue,
                             flux_audio_buffer, last_audio_time>>
         [] OTHER ->  \* HTTP error (line 438) or exception (line 444)
              /\ tts_queue' = Append(tts_queue, fturn)
              /\ ReturnFromOpenai
              /\ UNCHANGED conversation_history
    /\ UNCHANGED <<now, relayVars, sessVars, restVars, fcur, fturn, tpc, ttsCur,
                   is_speaking, nFluxChunks, nLlm, fluxStt, fluxLog>>

\* _handle_tool_calls, lines 453-485: create_task_tool returns and the next
\* chat-completion request is made; bad arguments raise out of the loop
FluxToolResult(outcome) ==
    /\ fpc = "tool"
    /\ IF outcome = "done"
       THEN /\ conversation_history' =
                  conversation_history \o <<"assistant", "tool">>
            /\ fpc' = "llm"
            /\ nLlm' = nLlm + 1
            /\ UNCHANGED <<fstack, flux_audio_buffer, last_audio_time>>
       ELSE \* json.loads fails: the except clause ends this loop
            /\ LET st == Unwind(SubSeq(fstack, 1, Len(fstack) - 1))
               IN IF st = <<>>
                  THEN FinishAudio
                  ELSE /\ fstack' = st
                       /\ fpc' = "tool"
                       /\ UNCHANGED <<flux_audio_buffer, last_audio_time>>
            /\ UNCHANGED <<conversation_history, nLlm>>
    /\ UNCHANGED <<now, relayVars, sessVars, restVars,
                   fcur, fturn, tts_queue, tpc,
                   ttsCur, is_speaking, nFluxChunks, fluxStt, fluxLog>>

\* _process_tts_queue takes a text; _generate_tts up to the TTS request
FluxTtsStart ==
    /\ tpc = "get"
    /\ tts_queue # <<>>
    /\ ttsCur' = Head(tts_queue)
    /\ tts_queue' = Tail(tts_queue)
    /\ is_speaking' = TRUE
    /\ fluxLog' = Append(fluxLog, Msg("response.audio.start",
                                      Head(tts_queue)))
    /\ tpc' = "post"
    /\ UNCHANGED <<now, relayVars, sessVars, restVars, flux_audio_buffer,
                   last_audio_time, fpc, fcur, fstack, fturn,
                   conversation_history, nFluxChunks, nLlm, fluxStt>>

\* _generate_tts, lines 536-561: the TTS request answers or fails
FluxTtsResult(outcome) ==
    /\ tpc = "post"
    /\ fluxLog' = IF outcome = "ok" /\ is_speaking
                  THEN fluxLog \o AudioMessages(ttsCur) ELSE fluxLog
    /\ is_speaking' = FALSE
    /\ ttsCur' = -1
    /\ tpc' = "get"
    /\ UNCHANGED <<now, relayVars, sessVars, restVars, flux_audio_buffer,
                   last_audio_time, fpc, fcur, fstack, fturn,
                   conversation_history, tts_queue, nFluxChunks, nLlm,
                   fluxStt>>

\* Time passes.  handle_audio reads the clock only to compare it with
\* last_audio_time + 2 s, so the clock is advanced only while that lies
\* ahead.  The TTS task, when it can take a queued text, does so before
\* the clock advances.
FluxTick ==
    /\ now < FluxMaxTime
    /\ last_audio_time # 0
    /\ ~GapElapsed(now, last_audio_time)
    /\ ~(tpc = "get" /\ tts_queue # <<>>)
    /\ now' = now + 1
    /\ UNCHANGED <<relayVars, sessVars, fluxVars, restVars>>

FluxNext ==
    \/ \E empty \in BOOLEAN : FluxHandleAudio(empty)
    \/ \E outcome \in {"text", "blank", "error"} : FluxSttResult(outcome)
    \/ \E outcome \in {"text", "empty", "tools", "error"},
          n \in 1..MaxToolCalls : FluxLlmResult(outcome, n)
    \/ \E outcome \in {"done", "bad_arguments"} : FluxToolResult(outcome)
    \/ FluxTtsStart
    \/ \E outcome \in {"ok", "http_error", "exception"} :
          FluxTtsResult(outcome)
    \/ FluxTick

SpecFlux == FluxInit /\ [][FluxNext]_vars

\* ================================================================ claims
\* ------------------------------------------ SupabaseClient (db_client.py)
\* The calls of SupabaseClient against the tables users and
\* conversation_messages.  No call contains an await before its query is
\* executed, so each call is one step.  The database gives each row its id
\* and its created_at, both in order of insertion.

Emails == {"a@x", "b@x"}
\* the name and the website a caller gives for itself
Profiles == {[name |-> "Ann", website_url |-> "x.com"],
             [name |-> "Bea", website_url |-> "y.com"]}
SessionIds == {1, 2}

\* (mutant) the lookup also compares the name
UserMatchesNameToo(row, email, name) ==
    row.email = email /\ row.name = name

\* line 51: .eq("email", email)
UserMatches(row, email, name) == row.email = email

\* .order("created_at", desc=...) of rows held in order of insertion
RECURSIVE Reverse(_)
Reverse(rows) ==
    IF rows = <<>> THEN <<>> ELSE Append(Reverse(Tail(rows)), Head(rows))

OrderByCreatedAt(rows, desc) == IF desc THEN Reverse(rows) ELSE rows

\* .limit(n)
Limit(rows, n) == SubSeq(rows, 1, IF n < Len(rows) THEN n ELSE Len(rows))

DbInit ==
    /\ now = StartTime
    /\ RelayIdle
    /\ SessIdle
    /\ FluxIdle
    /\ RestIdle

\* get_or_create_user, lines 49-66
GetOrCreateUser(email, name, website_url) ==
    /\ Len(userCalls) < MaxUserCalls
    /\ LET data == SelectSeq(users,
                             LAMBDA row : UserMatches(row, email, name))
           new_user == [id |-> Len(users) + 1, name |-> name,
                        email |-> email, website_url |-> website_url]
       IN IF data # <<>>
          THEN /\ userCalls' = Append(userCalls, [email |-> email,
                                                  name |-> name,
                                                  id |-> data[1].id])
               /\ UNCHANGED users
          ELSE /\ users' = Append(users, new_user)
               /\ userCalls' = Append(userCalls, [email |-> email,
                                                  name |-> name,
                                                  id |-> new_user.id])
    /\ UNCHANGED <<now, relayVars, sessVars, fluxVars, auxVars, serverVars,
                   conversation_messages, lastHistory>>

\* save_message, lines 217-227
SaveMessage(session_id) ==
    /\ Len(conversation_messages) < MaxMessages
    /\ conversation_messages' =
          Append(conversation_messages,
                 [id |-> Len(conversation_messages) + 1,
                  session_id |-> session_id,
                  created_at |-> Len(conversation_messages) + 1])
    /\ UNCHANGED <<now, relayVars, sessVars, fluxVars, auxVars, serverVars,
                   users, userCalls, lastHistory>>

\* get_conversation_history, lines 238-247
GetConversationHistory(session_id, limit) ==
    /\ LET rows == SelectSeq(conversation_messages,
                             LAMBDA row : row.session_id = session_id)
           data == Limit(OrderByCreatedAt(rows, FALSE), limit)
       IN lastHistory' = [session_id |-> session_id, limit |-> limit,
                          data |-> [i \in 1..Len(data) |-> data[i].id],
                          stored |-> [i \in 1..Len(rows) |-> rows[i].id]]
    /\ lastHistory' # lastHistory
    /\ UNCHANGED <<now, relayVars, sessVars, fluxVars, auxVars, serverVars,
                   users, userCalls, conversation_messages>>

DbNext ==
    \/ \E email \in Emails, p \in Profiles :
          GetOrCreateUser(email, p.name, p.website_url)
    \/ \E session_id \in SessionIds : SaveMessage(session_id)
    \/ \E session_id \in SessionIds, limit \in 1..MaxMessages :
          GetConversationHistory(session_id, limit)

SpecDb == DbInit /\ [][DbNext]_vars

\* -------------------------------------- VoiceServer, several connections
\* The connections of one VoiceServer.  self.agent is created once in
\* __init__ (main.py:50) and used by every request handler; what its
\* methods do is taken from the call sites in main.py: set_user_info stores
\* the user info that conversation_context.user_info then returns (lines
\* 633-655, 289-290).  Connection c belongs to user c.

ServerInit ==
    /\ now = StartTime
    /\ RelayIdle
    /\ SessIdle
    /\ FluxIdle
    /\ RestIdle

\* _setup_handler, lines 196-242: the session data are stored and the
\* agent is given the user info of the new session
Setup(c) ==
    /\ c \notin sessions
    /\ conn[c] = "none"
    /\ sessions' = sessions \cup {c}
    /\ agent' = [agent EXCEPT !.user_info = c]
    /\ UNCHANGED <<now, relayVars, sessVars, fluxVars, auxVars, dbVars,
                   conn, gtask, greeted, turns>>

\* _websocket_handler, lines 627-660.  reset_conversation belongs to
\* BackgroundAgent, whose code is not part of the sources: it may or may
\* not drop the user info.
Connect(c) ==
    /\ conn[c] = "none"
    /\ conn' = [conn EXCEPT ![c] = "open"]
    /\ \E info \in (IF c \in sessions THEN {c} ELSE {0, agent.user_info}) :
          /\ agent' = [user_info |-> info, ready |-> TRUE]
          /\ gtask' = [gtask EXCEPT ![c] = IF info # 0 THEN "pending"
                                           ELSE "none"]
    /\ UNCHANGED <<now, relayVars, sessVars, fluxVars, auxVars, dbVars,
                   sessions, greeted, turns>>

\* _send_greeting_and_overview, lines 289-296: the task starts and reads
\* the user info held by the agent
GreetingStarts(c) ==
    /\ gtask[c] = "pending"
    /\ gtask' = [gtask EXCEPT ![c] = "done"]
    /\ greeted' = [greeted EXCEPT ![c] = agent.user_info]
    /\ UNCHANGED <<now, relayVars, sessVars, fluxVars, auxVars, dbVars,
                   agent, sessions, conn, turns>>

\* _process_utterance, lines 533-535: agent.process_message
ProcessMessage(c) ==
    /\ conn[c] = "open"
    /\ Len(turns[c]) < MaxTurns
    /\ turns' = [turns EXCEPT ![c] = Append(@, agent)]
    /\ UNCHANGED <<now, relayVars, sessVars, fluxVars, auxVars, dbVars,
                   agent, sessions, conn, gtask, greeted>>

\* lines 769-771: the connection ends and the handler runs agent.cleanup()
Disconnect(c) ==
    /\ conn[c] = "open"
    /\ conn' = [conn EXCEPT ![c] = "closed"]
    /\ agent' = [agent EXCEPT !.ready = FALSE]
    /\ UNCHANGED <<now, relayVars, sessVars, fluxVars, auxVars, dbVars,
                   sessions, gtask, greeted, turns>>

ServerNext ==
    \E c \in 1..NumSessions :
       \/ Setup(c)
       \/ Connect(c)
       \/ GreetingStarts(c)
       \/ ProcessMessage(c)
       \/ Disconnect(c)

SpecServer == ServerInit /\ [][ServerNext]_vars

\* ------------------------------------------------------------ relay, C1-C5

\* C1: every batch flush transmits at most MAX_AUDIO_BATCH_SIZE messages and
\* the per-client queue never holds more than MAX_AUDIO_BATCH_SIZE messages.
C1_BatchAndQueueBounded ==
    /\ Len(audio_buffer) <= MAX_AUDIO_BATCH_SIZE
    /\ \A i \in 1..Len(flushLog) :
          /\ flushLog[i].size <= MAX_AUDIO_BATCH_SIZE
          /\ flushLog[i].sent <= MAX_AUDIO_BATCH_SIZE

\* a full batch has been transmitted after the queue overflowed: message 1
\* was evicted by the sixth message while sends were deferred
C1_Witness ==
    /\ Len(flushLog) > 0
    /\ flushLog[Len(flushLog)].sent = MAX_AUDIO_BATCH_SIZE
    /\ 1 \notin Range(sentLog)
    /\ nextMsg > MAX_AUDIO_BATCH_SIZE + 1

Backoff(attempts) ==
    \A i \in 2..Len(attempts) : attempts[i] - attempts[i-1] >= RETRY_DELAY_429

\* C3: when every attempt is answered with a 429, _send_with_retry makes one
\* initial attempt plus exactly MAX_RETRIES retries, each after the
\* RETRY_DELAY_429 backoff, then stops and raises to its caller.
C3_RetriesExactlyMax ==
    /\ raised.kind = "429" =>
          /\ Len(raised.attempts) = 1 + MAX_RETRIES
          /\ Backoff(raised.attempts)
          /\ rpc \in {"recv", "done"}
    /\ rpc = "send" =>
          /\ frame.retries <= MAX_RETRIES
          /\ frame.retries = Len(frame.attempts)
          /\ Backoff(Append(frame.attempts, now))

C3_Witness == raised.kind = "429" /\ Len(raised.attempts) = 1 + MAX_RETRIES

\* C4 as stated: an audio message that exhausted its retries during a flush
\* is removed from the queue and is not offered to a later flush.
C4_DroppedLeavesQueue ==
    \A m \in dropped : m \notin Range(audio_buffer)

\* C5 as stated: no audio-append message is transmitted upstream while the
\* pending-transcription counter is greater than zero.
C5_NoAudioWhilePending ==
    [][Len(sentLog') > Len(sentLog) => pending_transcriptions = 0]_vars

\* ---------------------------------------------------- voice session, C6-C10

Since(k) ==
    SubSeq(accepted, (IF k = 1 THEN 0 ELSE sttCalls[k-1].upto) + 1,
           sttCalls[k].upto)

\* C7: each finalized utterance gives one transcription call whose audio is
\* the in-order concatenation of the chunks accepted since the last
\* finalized utterance, and the buffer is empty afterwards (it holds exactly
\* the chunks accepted after the last call).
C7_CallCarriesWholeUtterance ==
    /\ \A k \in 1..Len(sttCalls) :
          /\ sttCalls[k].wav.data = Since(k)
          /\ sttCalls[k].wav.file_size
                = sttCalls[k].wav.data_size + WAV_HEADER_EXTRA
    /\ hpc \notin Stages =>
          Join(session_audio_buffer)
             = SubSeq(accepted,
                      (IF sttCalls = <<>> THEN 0
                       ELSE sttCalls[Len(sttCalls)].upto) + 1,
                      Len(accepted))

\* a second utterance of several chunks was transcribed and the handler is
\* listening again with an empty buffer
C7_Witness ==
    /\ Len(sttCalls) = 2
    /\ Len(sttCalls[2].wav.data) >= 2
    /\ hpc = "recv"
    /\ session_audio_buffer = <<>>
    /\ success = "true"

\* C8 as stated: once a speech-started interruption has been processed, no
\* response-audio-delta of the interrupted response (here the greeting,
\* response 0) is delivered to the client.
C8_NoAudioAfterInterruption ==
    interruptedAt >= 0 =>
        \A i \in (interruptedAt + 1)..Len(clientLog) :
            ~(clientLog[i].turn = 0
              /\ clientLog[i].type = "response.audio.delta")

\* the response pipelines of the Flux session that are in flight: the turn
\* being transcribed / answered by the message loop, the turns (0 is the
\* greeting) whose text waits in tts_queue or is being synthesized
FluxInFlight ==
    (IF fpc = "stt" THEN {fturn + 1}
     ELSE IF fpc \in {"llm", "tool"} THEN {fturn} ELSE {})
    \cup Range(tts_queue)
    \cup (IF ttsCur # -1 THEN {ttsCur} ELSE {})

\* the same for the handler of main.py: the greeting task and the utterance
\* being processed
SessInFlight ==
    (IF greeting_task = "running" THEN {0} ELSE {})
    \cup (IF hpc \in Stages THEN {Turn} ELSE {})

\* C9 as stated: at every instant at most one response pipeline of a session
\* (transcribe -> reply -> synthesize, or the greeting) is in flight; a
\* second one is never started while one is still in flight.
C9_OnePipelineInFlight ==
    /\ Cardinality(FluxInFlight) <= 1
    /\ Cardinality(SessInFlight) <= 1

Rank(type) ==
    CASE type = "user.transcript" -> 1
      [] type = "response.text" -> 2
      [] type = "session.close" -> 2
      [] type = "response.audio.delta" -> 3
      [] type = "response.audio.done" -> 4

Has(type, turn) == \E i \in 1..Len(clientLog) : clientLog[i] = Msg(type, turn)

\* C10: the messages of a turn reach the client as user-transcript, then
\* response-text, then response-audio-delta and response-audio-done, and no
\* message of a later turn precedes a message of an earlier turn.
C10_TurnOutputOrdered ==
    /\ \A i, j \in 1..Len(clientLog) :
          i < j =>
             /\ clientLog[i].turn <= clientLog[j].turn
             /\ (clientLog[i].turn = clientLog[j].turn
                 /\ clientLog[i].turn > 0) =>
                   Rank(clientLog[i].type) < Rank(clientLog[j].type)
    /\ \A t \in 1..Len(sttCalls) :
          /\ Has("response.text", t) => Has("user.transcript", t)
          /\ Has("response.audio.delta", t) => Has("response.text", t)
          /\ Has("response.audio.done", t) => Has("response.audio.delta", t)
    /\ \A i \in 1..Len(clientLog) :
          (clientLog[i].turn = 0
           /\ clientLog[i].type = "response.audio.done") =>
              (i > 1 /\ clientLog[i-1] = Msg("response.audio.delta", 0))

\* two complete turns were delivered after a greeting
C10_Witness ==
    /\ Has("response.audio.done", 0)
    /\ Has("response.audio.done", 1)
    /\ Has("response.audio.done", 2)

\* ids of the non-empty chunks the client sent while turn k was processed
SentDuring(k) ==
    SelectSeq([i \in 1..Len(arrival) |-> i],
              LAMBDA i : /\ arrival[i].phase = "turn"
                         /\ arrival[i].turn = k
                         /\ arrival[i].audio)

\* the client sent audio after a speech_started while turn k was processed
TurnInterrupted(k) ==
    \E i \in 1..Len(arrival) : /\ arrival[i].phase = "turn"
                               /\ arrival[i].turn = k
                               /\ arrival[i].int
                               /\ arrival[i].audio

\* u begins with the chunks of c, in order
StartsWith(u, c) == \A i \in 1..Len(c) : i <= Len(u) => u[i] = c[i]

C12_DiscardedWhileResponding ==
    \A i \in 1..Len(arrival) :
       (arrival[i].phase \in {"turn", "greeting"} /\ arrival[i].audio
        /\ \A j \in 1..Len(inbox) : inbox[j].id # i) =>
           IF arrival[i].int THEN i \in Range(accepted)
           ELSE i \notin Range(accepted)

\* C13: when reply text has been generated and the synthesis then fails or
\* exceeds its timeout (the step that leaves the synthesis stage without
\* sending anything), the response text of the turn has been delivered, no
\* response-audio-delta of the turn is sent, the turn is reported as
\* successful, and the handler goes back to reading the connection (it
\* leaves the loop only if the agent has completed the conversation, as
\* after any successful turn).
C13_TtsFailureKeepsTurn ==
    [][(hpc = "tts" /\ hpc' # "tts" /\ clientLog' = clientLog) =>
          /\ Has("response.text", Turn)
          /\ ~Has("response.audio.delta", Turn)
          /\ success' = "true"
          /\ hpc' = IF agent_state = "completed" THEN "closed" ELSE "recv"
          /\ inbox' = inbox]_vars

\* the synthesis of the first reply failed: the text was delivered without
\* audio, the turn was successful and a chunk sent afterwards was buffered
C13_Witness ==
    /\ Len(sttCalls) = 1
    /\ Has("response.text", 1)
    /\ ~Has("response.audio.delta", 1)
    /\ success = "true"
    /\ hpc = "recv"
    /\ session_audio_buffer # <<>>

\* C14 as stated: a session that has entered Processing eventually leaves
\* it, even if a collaborator never answers.
C14_TurnsEnd == (hpc \in Stages) ~> (hpc \notin Stages)

\* C17 as stated: after a malformed client message the session has emitted
\* exactly one error message and has terminated, with nothing of it left
\* running.
C17_MalformedGivesOneError ==
    hpc = "aborted" =>
       /\ Cardinality({i \in 1..Len(clientLog) :
                          clientLog[i].type = "error"}) = 1
       /\ greeting_task # "running"

\* C15 as stated: after the client connection has closed, the session's
\* cleanup (upstream connection closed, buffers released) eventually runs,
\* whether or not the upstream side closes.
C15_ClientCloseCleansUp == (rpc = "done") ~> cleaned

\* C18: a client message that is not input_audio_buffer.append is handed to
\* the upstream connection in the step in which it is received, without
\* entering the audio queue, whatever the time since the last flush, the
\* queue depth and the pending-transcription counter; when that send
\* returns, the message has been forwarded.
C18_ControlForwardedAtOnce ==
    [][/\ nCtl' # nCtl =>
             /\ rpc' = "send"
             /\ frame'.kind = "control"
             /\ frame'.current_time = now
             /\ audio_buffer' = audio_buffer
             /\ flushLog' = flushLog
       /\ (rpc = "send" /\ frame.kind = "control" /\ rpc' = "recv"
           /\ raised' = NoRaise) => ctlSent' = ctlSent + 1]_vars

\* a control message was forwarded while audio was held back: the counter
\* is above zero, the queue is not empty and the interval has not elapsed
C18_Witness ==
    /\ ctlSent = 1
    /\ pending_transcriptions > 0
    /\ audio_buffer # <<>>
    /\ now - last_audio_send_time < AUDIO_SEND_INTERVAL
    /\ rpc = "recv"

\* ------------------------------------------------------ database, C19-C20

\* C19: get_or_create_user is idempotent on email: all calls with the same
\* email return the same user id and at most one user record exists for an
\* email, whatever name and website_url the calls carry.
C19_OneUserPerEmail ==
    /\ \A i, j \in 1..Len(userCalls) :
          userCalls[i].email = userCalls[j].email =>
             userCalls[i].id = userCalls[j].id
    /\ \A i, j \in 1..Len(users) :
          users[i].email = users[j].email => i = j
    /\ \A i \in 1..Len(userCalls) :
          \E k \in 1..Len(users) : /\ users[k].id = userCalls[i].id
                                   /\ users[k].email = userCalls[i].email

\* three calls, the first and the third with the same email and different
\* names, gave two records and the same id for that email
C19_Witness ==
    /\ Len(userCalls) = 3
    /\ Len(users) = 2
    /\ userCalls[1].email = userCalls[3].email
    /\ userCalls[1].name # userCalls[3].name
    /\ userCalls[1].id = userCalls[3].id
    /\ userCalls[2].email # userCalls[1].email

\* C20 as stated: get_conversation_history(session, limit=n) on a session
\* that holds more than n messages returns the n most recently saved
\* messages, in chronological order.
C20_HistoryIsMostRecent ==
    Len(lastHistory.stored) > lastHistory.limit =>
        lastHistory.data =
            SubSeq(lastHistory.stored,
                   Len(lastHistory.stored) - lastHistory.limit + 1,
                   Len(lastHistory.stored))

\* ----------------------------------------------------------- server, C16

\* C16 as stated: sessions are isolated: the greeting of a connection
\* addresses its own user, and while a connection is open the agent it
\* uses holds the user info that connection set and stays initialized,
\* whatever the other connections do.
C16_SessionsIsolated ==
    \A c \in 1..NumSessions :
       /\ greeted[c] \in {0, c}
       /\ (conn[c] = "open" /\ c \in sessions) => agent.user_info = c
       /\ conn[c] = "open" => agent.ready
       /\ \A i \in 1..Len(turns[c]) :
             /\ turns[c][i].ready
             /\ c \in sessions => turns[c][i].user_info = c

\* ------------------------------------------------------- relay, C21, C27-C30

\* the six messages k..k+5 are the last ones handled, they were handled
\* within less than the pacing interval, each read a pending-transcription
\* counter of zero, and the relay has finished with them
BurstOfSix(k) ==
    /\ k + 5 = Len(burstLog)
    /\ rpc = "recv"
    /\ \A i \in k..(k + 5) :
          /\ burstLog[i].at - burstLog[k].at < AUDIO_SEND_INTERVAL
          /\ burstLog[i].pending = 0

\* C21 as stated: when 6 audio-append messages arrive within less than the
\* pacing interval with no pending transcription, the relay performs at most
\* 2 batch sends, none of more than MAX_AUDIO_BATCH_SIZE messages, and all 6
\* messages are transmitted.
C21_BurstOfSixBatched ==
    \A k \in 1..Len(burstLog) :
        BurstOfSix(k) =>
            /\ Cardinality({i \in k..(k + 5) : burstLog[i].flush > 0}) <= 2
            /\ \A i \in k..(k + 5) :
                  /\ burstLog[i].flush <= MAX_AUDIO_BATCH_SIZE
                  /\ i \in Range(sentLog)

\* C27: a failed upstream send on one client message (429 with the retries
\* exhausted, or any other error) does not end the relay session: the
\* receive loop waits for the client's next message, the upstream proxy is
\* left running and nothing is cleaned up.
C27_SendFailureKeepsSession ==
    [][(raised'.kind # "none" /\ raised' # raised) =>
          /\ rpc' = "recv"
          /\ opc' = opc
          /\ ~cleaned']_vars

\* after a message was given up with a 429, an audio message received
\* later and a control message have been transmitted
C27_Witness ==
    /\ dropped # {}
    /\ \E m \in Range(sentLog) : \A x \in dropped : m > x
    /\ ctlSent > 0
    /\ raised.kind = "none"

\* C28 as stated: no audio message is transmitted successfully upstream
\* more than once.
C28_SentAtMostOnce ==
    \A i, j \in 1..Len(sentLog) : i # j => sentLog[i] # sentLog[j]

\* C29 as stated: while the session is open, each audio-append message
\* received from the client has been transmitted upstream, is still in the
\* queue, or was dropped by a send failure that was raised.
C29_NoSilentLoss ==
    ~cleaned =>
        \A m \in 1..(nextMsg - 1) :
            \/ m \in Range(sentLog)
            \/ m \in Range(audio_buffer)
            \/ m \in dropped

\* audio waits in the queue although no send has failed, the relay is
\* idle, the pacing interval has elapsed and no transcription is pending
QueueStuck ==
    /\ audio_buffer # <<>>
    /\ nFaults = 0
    /\ rpc = "recv"
    /\ pending_transcriptions = 0
    /\ now - last_audio_send_time >= AUDIO_SEND_INTERVAL

\* C30 as stated: queued audio is eventually transmitted once the pacing
\* interval has elapsed and the pending-transcription counter is zero, even
\* if the client sends no further message: the queue does not stay stuck
\* for ever.
C30_QueueEventuallyFlushed == []<>(~QueueStuck)

\* ------------------------------------------------- voice session, C22-C26

\* C22 as stated: an utterance is finalized only when the silence threshold
\* has elapsed since the most recent speech chunk.  The chunk whose arrival
\* triggers the transcription is taken as the end of the silence; the most
\* recent chunk before it must be at least SPEECH_TIMEOUT older.
C22_SilenceSinceLastChunk ==
    hpc = "stt" =>
        LET buf == session_audio_buffer
            n == Len(buf)
        IN n >= 2 => buf[n].t - buf[n - 1].t >= SPEECH_TIMEOUT

\* the client has sent chunks 1 and 2 within less than a second, chunks 3 to
\* 6 after them until at least SPEECH_TIMEOUT later, and the handler has read
\* them all and is waiting for the next message
ScenarioPlayed ==
    /\ Len(arrival) = 6
    /\ arrival[2].at = arrival[1].at
    /\ arrival[6].at - arrival[2].at >= SPEECH_TIMEOUT
    /\ hpc = "recv"
    /\ inbox = <<>>

\* C23 as stated: after 2 speech chunks followed by 4 silent chunks lasting
\* more than the silence threshold, exactly one utterance was finalized and
\* transcribed, and its audio is exactly the 2 speech chunks.
C23_OneUtteranceOfSpeech ==
    ScenarioPlayed =>
        /\ Len(sttCalls) = 1
        /\ sttCalls[1].wav.data = <<1, 2>>

\* C24 as stated: when a speech_started message arrives while a response is
\* in flight, the task producing the response is cancelled and the session
\* is back in Listening: after a speech_started read during the greeting the
\* greeting task is not running any more, and a reply interrupted by a
\* speech_started neither moves to its next stage nor delivers a message.
C24_InterruptCancelsResponse ==
    [][/\ interruptedAt' >= 0 => greeting_task' # "running"
       /\ (hpc \in Stages /\ Interrupted) =>
              /\ clientLog' = clientLog
              /\ hpc' \in Stages => hpc' = hpc]_vars

\* the messages of turn k delivered to the client
OfTurn(log, k) == {i \in 1..Len(log) : log[i].turn = k}

\* C25: when the transcription of a finalized utterance yields an empty
\* transcript, nothing is sent to the client for that turn, no reply is
\* generated or synthesized, the buffer is emptied and the handler listens
\* again.
C25_EmptyTranscriptIsSilent ==
    [][SttResult("empty") =>
          /\ OfTurn(clientLog', Turn) = {}
          /\ hpc' = "recv"
          /\ session_audio_buffer' = <<>>
          /\ last_speech_time' = 0
          /\ sttCalls' = sttCalls]_vars

\* two utterances were transcribed; the first gave no transcript and left
\* nothing in the client's log, the second was answered
C25_Witness ==
    /\ Len(sttCalls) = 2
    /\ OfTurn(clientLog, 1) = {}
    /\ Has("response.text", 2)
    /\ hpc = "recv"

\* C26 as stated: when the transcription call or the reply-generation call
\* of a turn fails, the client receives an error message for that turn and
\* the session continues listening.
C26_FailureReported ==
    [][(SttResult("error") \/ LlmResult("error")) =>
          /\ \E i \in OfTurn(clientLog', Turn) : clientLog'[i].type = "error"
          /\ hpc' = "recv"]_vars

\* ------------------------------------------------------------ C31-C38

\* the handler waits for a message while the buffered audio has reached the
\* floor and the silence threshold has elapsed
SegmentStuck ==
    /\ hpc = "recv"
    /\ inbox = <<>>
    /\ session_audio_buffer # <<>>
    /\ ~BelowFloor(Bytes(session_audio_buffer))
    /\ now - last_speech_time >= SPEECH_TIMEOUT

\* C31 as stated: once the buffered audio meets the minimum floor and the
\* silence threshold has elapsed, the utterance is eventually finalized and
\* transcribed even if the client sends no further audio-append message:
\* the handler does not stay in that state for ever.
C31_UtteranceEventuallyFinalized == []<>(~SegmentStuck)

\* positions of the messages of one type on the client stream of the Flux
\* session
FluxAt(type) == {i \in 1..Len(fluxLog) : fluxLog[i].type = type}

\* C32 as stated: on the client stream every response.audio.start is
\* followed by exactly one response.audio.done before the next
\* response.audio.start, and by one once _generate_tts has returned, also
\* when the synthesis fails.
C32_StartDonePaired ==
    \A i \in FluxAt("response.audio.start") :
        LET later == {j \in FluxAt("response.audio.start") : j > i}
            next == IF later = {} THEN Len(fluxLog) + 1
                    ELSE CHOOSE j \in later : \A k \in later : j <= k
            dones == {k \in FluxAt("response.audio.done") : i < k /\ k < next}
        IN IF later = {} /\ tpc # "get"
           THEN Cardinality(dones) <= 1
           ELSE Cardinality(dones) = 1

\* C33 as stated: the audio handed to transcription at end-of-turn is made
\* of the chunks received before the gap that ended the turn; the chunk
\* that arrives after the gap is not part of it and belongs to the next
\* utterance.
C33_PostGapChunkIsNextUtterance ==
    [][Len(fluxStt') > Len(fluxStt) =>
          /\ nFluxChunks' \notin Range(fluxStt'[Len(fluxStt')])
          /\ fluxStt'[Len(fluxStt')] = flux_audio_buffer]_vars

\* the replies queued for speech on behalf of turn k: those still in
\* tts_queue and those taken from it by the TTS task
RepliesOf(k) ==
    Cardinality({i \in 1..Len(tts_queue) : tts_queue[i] = k})
    + Cardinality({i \in FluxAt("response.audio.start") :
                      fluxLog[i].turn = k})

\* C36 as stated: each end-of-turn with a non-empty transcript queues at
\* most one assistant reply for speech, also when the language model
\* answers with one or several tool calls.
C36_OneReplyPerTurn == \A k \in 1..fturn : RepliesOf(k) <= 1

\* --------------------------- handle_function_call (realtime_server.py)
\* The upstream -> client coroutine awaits handle_function_call for every
\* response.function_call_arguments.done event (lines 256-258), so the
\* calls are handled one after the other, each in one step.  The event
\* with index i carries call_id i.

\* the functions of the session configuration and one it does not have
FunctionNames == {"create_task", "create_meeting_notes",
                  "get_current_date_time", "get_weather"}

\* data["arguments"]: a JSON object with the fields of the function, an
\* object whose "importance" is null, a JSON array, text that is not JSON
ArgumentStrings == {"object", "null_importance", "array", "malformed"}

\* what the Pulpoo API does with a request
ApiOutcomes == {"created", "api_error", "unreachable"}

\* line 283: json.loads; "raise" stands for an exception
JsonLoads(arguments) ==
    IF arguments = "malformed" THEN "raise" ELSE arguments

\* lines 289-300: arguments.get(...), which a list does not have
ArgumentsGet(parsed, key) ==
    CASE parsed = "array" -> "raise"
      [] key = "importance" /\ parsed = "null_importance" -> "None"
      [] OTHER -> "value"

\* create_task, lines 326-387: importance.upper() is evaluated outside the
\* try block, every failure of the request becomes a sentence
CreateTask(importance, api) ==
    IF importance = "None" THEN "raise" ELSE api

\* create_meeting_notes, lines 389-437: create_task with importance MEDIUM
CreateMeetingNotes(api) == CreateTask("MEDIUM", api)

\* lines 280-303: the result of the call, or "raise"
FunctionResult(name, arguments, api) ==
    LET parsed == JsonLoads(arguments) IN
    CASE parsed = "raise" -> "raise"
      [] name = "create_task" ->
            IF ArgumentsGet(parsed, "title") = "raise" THEN "raise"
            ELSE CreateTask(ArgumentsGet(parsed, "importance"), api)
      [] name = "create_meeting_notes" ->
            IF ArgumentsGet(parsed, "summary") = "raise" THEN "raise"
            ELSE CreateMeetingNotes(api)
      [] name = "get_current_date_time" -> "datetime"
      [] OTHER -> "unknown"

FunctionCallOutput(call_id, result) ==
    [type |-> "function_call_output", call_id |-> call_id,
     output |-> result]

ResponseCreate == [type |-> "response.create", call_id |-> 0, output |-> ""]

CallInit ==
    /\ now = StartTime
    /\ RelayIdle
    /\ SessIdle
    /\ FluxIdle
    /\ RestIdle

\* handle_function_call, lines 278-324.  sends is the number of sends the
\* upstream connection still accepts; an exception anywhere in the body is
\* logged at lines 323-324 and ends the call
HandleFunctionCall(name, arguments, api, sends) ==
    /\ openai_open
    /\ Len(callEvents) < MaxCalls
    /\ LET call_id == Len(callEvents) + 1
           result == FunctionResult(name, arguments, api)
           wanted == <<FunctionCallOutput(call_id, result), ResponseCreate>>
       IN  /\ callEvents' = Append(callEvents,
                                   [call_id |-> call_id, name |-> name,
                                    arguments |-> arguments])
           /\ IF result = "raise"
              THEN UNCHANGED <<callSent, openai_open>>
              ELSE /\ callSent' = callSent \o SubSeq(wanted, 1, sends)
                   /\ openai_open' = (sends = 2)
    /\ UNCHANGED <<now, relayVars, sessVars, fluxVars, dbVars, serverVars,
                   clientVars, authVars>>

CallNext ==
    \E name \in FunctionNames, arguments \in ArgumentStrings,
       api \in ApiOutcomes, sends \in 0..2 :
          HandleFunctionCall(name, arguments, api, sends)

SpecCalls == CallInit /\ [][CallNext]_vars

OutputsOf(call_id) ==
    {j \in 1..Len(callSent) :
        /\ callSent[j].type = "function_call_output"
        /\ callSent[j].call_id = call_id}

\* C35 as stated: while the upstream connection is open, every function-
\* call event received has been answered by exactly one function_call_output
\* item with its call_id, directly followed by a response.create, and no
\* other response.create has been sent, whatever the name and the
\* arguments of the call.
C35_EveryCallAnswered ==
    openai_open =>
       /\ \A i \in 1..Len(callEvents) :
             /\ Cardinality(OutputsOf(callEvents[i].call_id)) = 1
             /\ \A j \in OutputsOf(callEvents[i].call_id) :
                   /\ j < Len(callSent)
                   /\ callSent[j + 1] = ResponseCreate
       /\ Cardinality({j \in 1..Len(callSent) :
                          callSent[j] = ResponseCreate}) = Len(callEvents)

\* ------------------- the relay's per-client state (realtime_server.py)
\* handle_client of several clients of one RealtimeWebSocketServer.  The
\* client_id is "client_" followed by id(client_ws); the connection object
\* lives as long as its handle_client, so the ids of the clients handled
\* at the same time differ.  Each step is the code between two awaits.

ClientIds == 1..NumClients

DictNames == {"session_start_times", "conversation_history",
              "last_audio_send_time", "audio_buffer",
              "pending_transcriptions", "rate_limit_stats"}

\* dict[k] = v
Put(dict, k, v) ==
    [x \in DOMAIN dict \cup {k} |-> IF x = k THEN v ELSE dict[x]]

\* del dict[k]
Del(dict, k) == [x \in DOMAIN dict \ {k} |-> dict[x]]

\* if k not in dict: dict[k] = v
SetDefault(dict, k, v) == IF k \in DOMAIN dict THEN dict ELSE Put(dict, k, v)

\* lines 120-125
ZeroStats == [total_sends |-> 0, throttled_sends |-> 0,
              batched_sends |-> 0, errors_429 |-> 0]

ClientInit ==
    /\ now = StartTime
    /\ RelayIdle
    /\ SessIdle
    /\ FluxIdle
    /\ RestIdle

ClientFrame ==
    UNCHANGED <<now, relayVars, sessVars, fluxVars, dbVars, serverVars,
                callVars, authVars>>

\* handle_client, lines 545-547: up to the first await
HandleClient(c) ==
    /\ cpc[c] = "none"
    /\ relay' = [relay EXCEPT
                    !.clients = @ \cup {c},
                    !.session_start_times = Put(@, c, now)]
    /\ cpc' = [cpc EXCEPT ![c] = "connect"]
    /\ UNCHANGED cevents
    /\ ClientFrame

\* lines 553-569: the upstream connection is made and both proxies start
\* (lines 113-125 and 212-216), or an exception leads to line 571
ConnectResult(c, ok) ==
    /\ cpc[c] = "connect"
    /\ IF ok
       THEN /\ relay' = [relay EXCEPT
                   !.audio_buffer = SetDefault(@, c, <<>>),
                   !.last_audio_send_time = SetDefault(@, c, 0),
                   !.rate_limit_stats = SetDefault(@, c, ZeroStats),
                   !.pending_transcriptions = SetDefault(@, c, 0)]
            /\ cpc' = [cpc EXCEPT ![c] = "proxy"]
       ELSE /\ UNCHANGED relay
            /\ cpc' = [cpc EXCEPT ![c] = "finally"]
    /\ UNCHANGED cevents
    /\ ClientFrame

\* _handle_audio_message, lines 150-182, on a connection whose sends succeed
ClientAudioMessage(c) ==
    /\ cpc[c] = "proxy"
    /\ cevents[c] < MaxClientEvents
    /\ LET buffer == Append(relay.audio_buffer[c], "audio")
           should_send ==
               /\ \/ now - relay.last_audio_send_time[c]
                        >= AUDIO_SEND_INTERVAL
                  \/ Len(buffer) >= MAX_AUDIO_BATCH_SIZE
               /\ relay.pending_transcriptions[c] = 0
           stats == relay.rate_limit_stats[c]
       IN  relay' =
             IF should_send
             THEN [relay EXCEPT
                     !.audio_buffer[c] = <<>>,
                     !.last_audio_send_time[c] = now,
                     !.rate_limit_stats[c] =
                         [stats EXCEPT
                            !.batched_sends =
                                IF Len(buffer) > 1 THEN @ + 1 ELSE @,
                            !.total_sends = @ + Len(buffer)]]
             ELSE [relay EXCEPT
                     !.audio_buffer[c] = buffer,
                     !.rate_limit_stats[c].throttled_sends = @ + 1]
    /\ cevents' = [cevents EXCEPT ![c] = @ + 1]
    /\ UNCHANGED cpc
    /\ ClientFrame

UpstreamTypes == {"speech_started", "transcription.completed",
                  "transcription.failed", "response.text.done", "error"}

\* proxy_openai_to_client, lines 225-263: one upstream message
ClientUpstreamMessage(c, type) ==
    /\ cpc[c] = "proxy"
    /\ cevents[c] < MaxClientEvents
    /\ LET pending == relay.pending_transcriptions[c]
           history == SetDefault(relay.conversation_history, c, <<>>)
       IN  relay' =
             CASE type = "speech_started" ->
                    [relay EXCEPT !.pending_transcriptions[c] = @ + 1]
               [] type = "transcription.completed" ->
                    [relay EXCEPT
                       !.pending_transcriptions[c] =
                           IF pending > 0 THEN @ - 1 ELSE @,
                       !.conversation_history =
                           Put(history, c, Append(history[c], "user"))]
               [] type = "transcription.failed" ->
                    [relay EXCEPT
                       !.pending_transcriptions[c] =
                           IF pending > 0 THEN @ - 1 ELSE @]
               [] type = "response.text.done" ->
                    [relay EXCEPT
                       !.conversation_history =
                           Put(history, c, Append(history[c], "assistant"))]
               [] OTHER ->
                    [relay EXCEPT !.rate_limit_stats[c].errors_429 = @ + 1]
    /\ cevents' = [cevents EXCEPT ![c] = @ + 1]
    /\ UNCHANGED cpc
    /\ ClientFrame

\* line 565: both proxies have finished, asyncio.gather returns
ProxiesEnd(c) ==
    /\ cpc[c] = "proxy"
    /\ cpc' = [cpc EXCEPT ![c] = "finally"]
    /\ UNCHANGED <<relay, cevents>>
    /\ ClientFrame

\* (mutant) the clean-up leaves the conversation history behind
CleanUpKeepsHistory(r, c) ==
    [clients |-> r.clients \ {c},
     session_start_times |-> Del(r.session_start_times, c),
     conversation_history |-> r.conversation_history,
     last_audio_send_time |-> Del(r.last_audio_send_time, c),
     audio_buffer |-> Del(r.audio_buffer, c),
     pending_transcriptions |-> Del(r.pending_transcriptions, c),
     rate_limit_stats |-> Del(r.rate_limit_stats, c)]

\* lines 585-601: discard, and a guarded del for each dictionary
CleanUp(r, c) ==
    [clients |-> r.clients \ {c},
     session_start_times |-> Del(r.session_start_times, c),
     conversation_history |-> Del(r.conversation_history, c),
     last_audio_send_time |-> Del(r.last_audio_send_time, c),
     audio_buffer |-> Del(r.audio_buffer, c),
     pending_transcriptions |-> Del(r.pending_transcriptions, c),
     rate_limit_stats |-> Del(r.rate_limit_stats, c)]

\* the finally clause, lines 581-603, up to its await
Finally(c) ==
    /\ cpc[c] = "finally"
    /\ relay' = CleanUp(relay, c)
    /\ cpc' = [cpc EXCEPT ![c] = "closing"]
    /\ UNCHANGED cevents
    /\ ClientFrame

\* lines 603-605: the upstream connection is closed, handle_client returns
ClientReturn(c) ==
    /\ cpc[c] = "closing"
    /\ cpc' = [cpc EXCEPT ![c] = "returned"]
    /\ UNCHANGED <<relay, cevents>>
    /\ ClientFrame

ClientNext ==
    \E c \in ClientIds :
       \/ HandleClient(c)
       \/ \E ok \in BOOLEAN : ConnectResult(c, ok)
       \/ ClientAudioMessage(c)
       \/ \E type \in UpstreamTypes : ClientUpstreamMessage(c, type)
       \/ ProxiesEnd(c)
       \/ Finally(c)
       \/ ClientReturn(c)

SpecClients == ClientInit /\ [][ClientNext]_vars

\* nothing in r is keyed by client c
NoEntry(r, c) ==
    /\ c \notin r.clients
    /\ \A f \in DictNames : c \notin DOMAIN r[f]

\* what r holds for client c
EntriesOf(r, c) ==
    [f \in DictNames \cup {"clients"} |->
        IF f = "clients" THEN <<c \in r.clients>>
        ELSE IF c \in DOMAIN r[f] THEN <<r[f][c]>> ELSE <<>>]

\* C37: once the clean-up of handle_client has run for a client, and when
\* handle_client has returned, nothing keyed by that client is left in
\* clients or in any of the six dictionaries, and the clean-up leaves what
\* the relay holds for every other client as it was.
C37_CleanupRemovesOwnEntries ==
    [][\A c \in ClientIds :
          /\ cpc'[c] \in {"closing", "returned"} => NoEntry(relay', c)
          /\ (cpc[c] = "finally" /\ cpc'[c] = "closing") =>
                \A d \in ClientIds \ {c} :
                   EntriesOf(relay', d) = EntriesOf(relay, d)]_vars

\* client 1 was served and its handle_client has returned, while client 2
\* is still connected and has a conversation history
C37_Witness ==
    /\ cpc[1] = "returned"
    /\ cevents[1] >= 1
    /\ cpc[2] = "proxy"
    /\ 2 \in DOMAIN relay.conversation_history
    /\ 2 \in relay.clients

\* ------------------------------------------------------ auth_server.py
\* The request handlers of the Flask application and the clean-up thread
\* started at lines 183-193.  A request handler is one step; the thread
\* runs beside the handlers, so its loops are interleaved with them one
\* iteration at a time.  The clock is counted in units of twelve hours;
\* two readings of datetime.now() in different /token calls differ (in
\* their microseconds, here the number of tokens issued before).

TOKEN_TTL == 2      \* timedelta(hours=24)

UserIds == {"ann", "anonymous"}
Rooms == {"default"}

\* lines 55-57: base64 of the JSON text of token_data
TokenOf(token_data) ==
    <<token_data.user_id, token_data.room, token_data.issued_at,
      token_data.expires_at>>

\* a token the server never made, and the absence of a token
ForgedToken == <<"ann", "default", <<0, 0>>, AuthMaxTime + TOKEN_TTL>>
NoToken == <<>>

\* lines 91-92 and 168-169: datetime.now() > expires_at
Expired(token_data, time) == time > token_data.expires_at

AuthInit ==
    /\ now = StartTime
    /\ RelayIdle
    /\ SessIdle
    /\ FluxIdle
    /\ RestIdle

AuthFrame ==
    UNCHANGED <<relayVars, sessVars, fluxVars, dbVars, serverVars, callVars,
                clientVars>>

\* generate_token, lines 39-74
GenerateToken(user_id, room) ==
    /\ Cardinality(issued) < MaxTokens
    /\ LET token_data == [user_id |-> user_id, room |-> room,
                          issued_at |-> <<now, Cardinality(issued)>>,
                          expires_at |-> now + TOKEN_TTL]
           token == TokenOf(token_data)
       IN  /\ active_tokens' = Put(active_tokens, token, token_data)
           /\ issued' = issued \cup {token}
    /\ UNCHANGED <<now, revoked, found_expired, lastReply, cleanup>>
    /\ AuthFrame

\* validate_token, lines 76-106
ValidateToken(token) ==
    /\ CASE token = NoToken ->
              /\ lastReply' = [token |-> token, valid |-> FALSE,
                               status |-> 400, at |-> now]
              /\ UNCHANGED <<active_tokens, found_expired>>
         [] token # NoToken /\ token \notin DOMAIN active_tokens ->
              /\ lastReply' = [token |-> token, valid |-> FALSE,
                               status |-> 401, at |-> now]
              /\ UNCHANGED <<active_tokens, found_expired>>
         [] OTHER ->
              IF Expired(active_tokens[token], now)
              THEN /\ active_tokens' = Del(active_tokens, token)
                   /\ found_expired' = found_expired \cup {token}
                   /\ lastReply' = [token |-> token, valid |-> FALSE,
                                    status |-> 401, at |-> now]
              ELSE /\ lastReply' = [token |-> token, valid |-> TRUE,
                                    status |-> 200, at |-> now]
                   /\ UNCHANGED <<active_tokens, found_expired>>
    /\ UNCHANGED <<now, issued, revoked, cleanup>>
    /\ AuthFrame

\* revoke_token, lines 108-127
RevokeToken(token) ==
    /\ token # NoToken
    /\ token \in DOMAIN active_tokens
    /\ active_tokens' = Del(active_tokens, token)
    /\ revoked' = revoked \cup {token}
    /\ UNCHANGED <<now, issued, found_expired, lastReply, cleanup>>
    /\ AuthFrame

\* lines 187-190: the thread wakes up; cleanup_expired_tokens, lines
\* 164-167, up to the first iteration
CleanupStart ==
    /\ cleanup.pc = "sleep"
    /\ cleanup' = [pc |-> "scan", current_time |-> now,
                   expired_tokens |-> <<>>, scanned |-> {},
                   size |-> Cardinality(DOMAIN active_tokens)]
    /\ UNCHANGED <<now, active_tokens, issued, revoked, found_expired,
                   lastReply>>
    /\ AuthFrame

\* lines 167-170: one iteration over active_tokens.items().  The iterator
\* raises RuntimeError when the dictionary has changed its size; nothing
\* catches it, and the thread ends
CleanupScan ==
    /\ cleanup.pc = "scan"
    /\ IF Cardinality(DOMAIN active_tokens) # cleanup.size
       THEN /\ cleanup' = [cleanup EXCEPT !.pc = "dead"]
            /\ UNCHANGED found_expired
       ELSE IF DOMAIN active_tokens \subseteq cleanup.scanned
       THEN /\ cleanup' = [cleanup EXCEPT !.pc = "delete"]
            /\ UNCHANGED found_expired
       ELSE \E token \in DOMAIN active_tokens \ cleanup.scanned :
               LET expired == Expired(active_tokens[token],
                                      cleanup.current_time)
               IN  /\ cleanup' =
                        [cleanup EXCEPT
                           !.scanned = @ \cup {token},
                           !.expired_tokens =
                               IF expired THEN Append(@, token) ELSE @]
                   /\ found_expired' =
                        IF expired THEN found_expired \cup {token}
                        ELSE found_expired
    /\ UNCHANGED <<now, active_tokens, issued, revoked, lastReply>>
    /\ AuthFrame

\* lines 172-173: one del; a KeyError ends the thread as well
CleanupDelete ==
    /\ cleanup.pc = "delete"
    /\ IF cleanup.expired_tokens = <<>>
       THEN /\ cleanup' = [cleanup EXCEPT !.pc = "sleep"]
            /\ UNCHANGED active_tokens
       ELSE LET token == Head(cleanup.expired_tokens) IN
            IF token \in DOMAIN active_tokens
            THEN /\ active_tokens' = Del(active_tokens, token)
                 /\ cleanup' = [cleanup EXCEPT !.expired_tokens = Tail(@)]
            ELSE /\ cleanup' = [cleanup EXCEPT !.pc = "dead"]
                 /\ UNCHANGED active_tokens
    /\ UNCHANGED <<now, issued, revoked, found_expired, lastReply>>
    /\ AuthFrame

AuthTick ==
    /\ now < AuthMaxTime
    /\ now' = now + 1
    /\ UNCHANGED authVars
    /\ AuthFrame

AuthNext ==
    \/ \E user_id \in UserIds, room \in Rooms : GenerateToken(user_id, room)
    \/ \E token \in issued \cup {ForgedToken, NoToken} :
          \/ ValidateToken(token)
          \/ RevokeToken(token)
    \/ CleanupStart
    \/ CleanupScan
    \/ CleanupDelete
    \/ AuthTick

SpecAuth == AuthInit /\ [][AuthNext]_vars

\* C38 as stated: a /token/validate call reports a token valid only if it
\* was issued, has not been revoked and has not expired, and a token that
\* was revoked or that an expiry test (of /token/validate, or of a clean-up
\* that has ended) found expired is no longer in active_tokens and is not
\* reported valid.
C38_ValidOnlyWhileActive ==
    [][/\ \A token \in issued \cup {ForgedToken, NoToken} :
             (ValidateToken(token) /\ lastReply'.valid) =>
                /\ token \in issued
                /\ token \notin revoked \cup found_expired
                /\ now <= active_tokens[token].expires_at
       /\ cleanup'.pc \in {"sleep", "dead"} =>
             \A token \in revoked' \cup found_expired' :
                token \notin DOMAIN active_tokens']_vars
====
